---- MODULE Spec2Model ----
(***************************************************************************)
(* Feedback sessions of the glow bridge: the session state machine         *)
(* (glow-bridge/src/api/feedback.rs, state.rs), the message store          *)
(* (glow-executors/src/logs.rs) and the Claude log processor               *)
(* (glow-executors/src/executors/claude/log_processor.rs).                 *)
(*                                                                         *)
(* Spec       one session: the runner task, cancel and get-status handlers *)
(* SpecStore    one MsgStore: concurrent pushers, subscribers, clear()     *)
(* SpecHistory  one MsgStore: concurrent pushers, history readers, clear() *)
(* SpecNorm     one ClaudeLogProcessor fed line by line, then flushed       *)
(* SpecChunks   one ClaudeLogProcessor fed one stream in arbitrary chunks   *)
(* SpecBlocks   one ClaudeLogProcessor handed one Assistant record          *)
(* SpecEvents   one ClaudeLogProcessor fed stream events and Error records *)
(* SpecEnv      one ExecutionEnv built by insert, merge, with_overrides    *)
(* SpecSocket   one session: the runner task and one websocket handler     *)
(* SpecPipes    one session: the runner task and its process at the pipes  *)
(* SpecLocks    two sessions: runners and request handlers at the locks    *)
(* SpecCmd      the agent command line of the executor and of the runner   *)
(* SpecStream   one MsgStore: concurrent pushers and one websocket handler *)
(*                                                                         *)
(* Text is a sequence of tokens (NL, SP, or an atom standing for a run of  *)
(* non-blank characters); entry contents are strings; NormalizedEntry      *)
(* timestamps (wall clock) are left out.                                   *)
(***************************************************************************)
EXTENDS Naturals, Integers, Sequences, FiniteSets, TLC

\* ------------------------------------------------------------------ bounds
\* stdout lines one process writes
MaxLines == 2
\* push calls on the store of SpecStore and SpecHistory
MaxPush == 3
\* Slots of the broadcast channel. The program uses 256 (logs.rs:143); the
\* model scales it down so that a receiver can fall behind within MaxPush.
ChanCapacity == 2
\* lines fed to the processor of SpecNorm
MaxNormLines == 4
\* tokens of the stream of SpecChunks
MaxStream == 4
\* content blocks of the Assistant record of SpecBlocks
MaxBlocks == 2
\* Lines a pipe holds before a write to it blocks. A pipe of the program
\* holds 64 KiB; the model scales it down.
PipeCapacity == 2
\* stderr lines one process writes
MaxErrLines == 3

\* ------------------------------------------------------------------- text
NL == [t |-> "nl"]
SP == [t |-> "sp"]
Json(m) == [t |-> "json", msg |-> m]
Junk(s) == [t |-> "text", s |-> s]
\* The text of the JSON record m cut in two inside its type tag:
\* JsonPart(m, 1) \o JsonPart(m, 2) is the record, anything else is not
JsonPart(m, i) == [t |-> "part", msg |-> m, i |-> i]

NoText == [none |-> TRUE]
Some(s) == [none |-> FALSE, v |-> s]

RECURSIVE TrimStart(_)
TrimStart(s) == IF s # <<>> /\ Head(s) = SP THEN TrimStart(Tail(s)) ELSE s

RECURSIVE TrimEnd(_)
TrimEnd(s) ==
    IF s # <<>> /\ s[Len(s)] = SP THEN TrimEnd(SubSeq(s, 1, Len(s) - 1)) ELSE s

\* str::trim
Trim(s) == TrimEnd(TrimStart(s))

\* str::find('\n'): the first index holding NL, 0 when there is none
RECURSIVE FindNL(_, _)
FindNL(s, i) ==
    IF i > Len(s) THEN 0 ELSE IF s[i] = NL THEN i ELSE FindNL(s, i + 1)

\* ------------------------------------------------------------ log messages
Entry(ty, c) == [kind |-> "Entry", entry_type |-> ty, content |-> c]
EntryMeta(ty, c, meta) ==
    [kind |-> "Entry", entry_type |-> ty, content |-> c, metadata |-> meta]
Raw(line) == [kind |-> "Raw", text |-> line]
Started == [kind |-> "Started"]
Ended == [kind |-> "Ended"]
Error(s) == [kind |-> "Error", text |-> s]

\* ------------------------------------------------------- protocol messages
SystemMsg == [type |-> "system"]
UserMsg(c) == [type |-> "user", content |-> c]
AssistantMsg(blocks) == [type |-> "assistant", content |-> blocks]
TextBlock(s) == [type |-> "text", text |-> s]
ThinkingBlock(s) == [type |-> "thinking", thinking |-> s]
ToolUseBlock(id, name, input) ==
    [type |-> "tool_use", id |-> id, name |-> name, input |-> input]
TextDelta(s) == [type |-> "stream_event", event |-> "text_delta", text |-> s]
ThinkingDelta(s) ==
    [type |-> "stream_event", event |-> "thinking_delta", text |-> s]
InputJsonDelta == [type |-> "stream_event", event |-> "input_json_delta"]
MessageStart == [type |-> "stream_event", event |-> "message_start"]
BlockStart == [type |-> "stream_event", event |-> "content_block_start"]
BlockStop == [type |-> "stream_event", event |-> "content_block_stop"]
MessageDelta == [type |-> "stream_event", event |-> "message_delta"]
MessageStop == [type |-> "stream_event", event |-> "message_stop"]
ResultMsg(isError) == [type |-> "result", is_error |-> isError]
ErrorMsg(message, error) ==
    [type |-> "error", message |-> message, error |-> error]

\* -------------------------------------------------------------- normalizer
\* ClaudeLogProcessor: buffer, current_content, current_thinking,
\* suggested_edits, has_streamed_content
NewProcessor ==
    [buffer |-> <<>>, current_content |-> "", current_thinking |-> "",
     suggested_edits |-> <<>>, has_streamed_content |-> FALSE]

\* The result of a processor step: the processor after it and the LogMsgs
\* it pushed, in push order.
Step(p, out) == [proc |-> p, out |-> out]

\* The SuggestedEdit parse_suggested_edit builds from the fields it found
NewEdit(id, original, suggested, explanation) ==
    [id |-> id, original_text |-> original, suggested_text |-> suggested,
     explanation |-> explanation,
     range |-> [from |-> 0, to |-> 0, quoted_text |-> ""],
     applied |-> FALSE, rejected |-> FALSE]

\* input.get(key).and_then(as_str).unwrap_or("")
TextOrEmpty(f) == IF f = NoText THEN "" ELSE f.v

\* parse_suggested_edit that takes a missing text as empty
ParseSuggestedEditLenient(id, input) ==
    [ok |-> TRUE,
     edit |-> NewEdit(id, TextOrEmpty(input.original_text),
                      TextOrEmpty(input.suggested_text),
                      TextOrEmpty(input.explanation))]

\* parse_suggested_edit: Ok(edit) needs original_text and suggested_text
ParseSuggestedEdit(id, input) ==
    IF input.original_text = NoText THEN [ok |-> FALSE]
    ELSE IF input.suggested_text = NoText THEN [ok |-> FALSE]
    ELSE [ok |-> TRUE,
          edit |-> NewEdit(id, input.original_text.v, input.suggested_text.v,
                           TextOrEmpty(input.explanation))]

\* serde_json::to_string(&edit): SuggestedEdit and TextRange serialize with
\* camelCase keys
EditToJson(e) ==
    [id |-> e.id, originalText |-> e.original_text,
     suggestedText |-> e.suggested_text, explanation |-> e.explanation,
     range |-> [from |-> e.range.from, to |-> e.range.to,
                quotedText |-> e.range.quoted_text],
     applied |-> e.applied, rejected |-> e.rejected]

\* One content block of an Assistant record that ignores the streamed flag
AssistantBlockUnguarded(p, b) ==
    IF b.type = "text" THEN <<Entry("AssistantMessage", b.text)>>
    ELSE IF b.type = "thinking" THEN <<Entry("ThinkingMessage", b.thinking)>>
    ELSE IF b.name = "suggest_edit"
    THEN LET r == ParseSuggestedEdit(b.id, b.input)
         IN IF r.ok
            THEN <<EntryMeta("SuggestedEdit", EditToJson(r.edit), b.input)>>
            ELSE <<>>
    ELSE <<EntryMeta("ToolCall", b.name, b.input)>>

\* One content block of an Assistant record
AssistantBlock(p, b) ==
    IF b.type = "text"
    THEN IF ~p.has_streamed_content
         THEN <<Entry("AssistantMessage", b.text)>> ELSE <<>>
    ELSE IF b.type = "thinking"
    THEN IF ~p.has_streamed_content
         THEN <<Entry("ThinkingMessage", b.thinking)>> ELSE <<>>
    ELSE IF b.name = "suggest_edit"
    THEN LET r == ParseSuggestedEdit(b.id, b.input)
         IN IF r.ok
            THEN <<EntryMeta("SuggestedEdit", EditToJson(r.edit), b.input)>>
            ELSE <<>>
    ELSE <<EntryMeta("ToolCall", b.name, b.input)>>

\* The edits an Assistant record's blocks add to suggested_edits
RECURSIVE CollectedEdits(_)
CollectedEdits(blocks) ==
    IF blocks = <<>> THEN <<>>
    ELSE LET b == Head(blocks)
             r == IF b.type = "tool_use" /\ b.name = "suggest_edit"
                  THEN ParseSuggestedEdit(b.id, b.input) ELSE [ok |-> FALSE]
         IN (IF r.ok THEN <<r.edit>> ELSE <<>>) \o CollectedEdits(Tail(blocks))

RECURSIVE AssistantBlocks(_, _)
AssistantBlocks(p, blocks) ==
    IF blocks = <<>> THEN <<>>
    ELSE AssistantBlock(p, Head(blocks)) \o AssistantBlocks(p, Tail(blocks))

\* ContentBlockStop arm that pushes the text before the thinking
FlushOnBlockStopContentFirst(p) ==
    LET t == p.current_thinking # ""
        c == p.current_content # ""
    IN Step([p EXCEPT !.current_thinking = "", !.current_content = "",
                      !.has_streamed_content = @ \/ t \/ c],
            (IF c THEN <<Entry("AssistantMessage", p.current_content)>>
             ELSE <<>>)
            \o (IF t THEN <<Entry("ThinkingMessage", p.current_thinking)>>
                ELSE <<>>))

\* ContentBlockStop arm that pushes a copy of the text and keeps it
FlushOnBlockStopKeepsContent(p) ==
    LET t == p.current_thinking # ""
        c == p.current_content # ""
    IN Step([p EXCEPT !.current_thinking = "",
                      !.has_streamed_content = @ \/ t \/ c],
            (IF t THEN <<Entry("ThinkingMessage", p.current_thinking)>>
             ELSE <<>>)
            \o (IF c THEN <<Entry("AssistantMessage", p.current_content)>>
                ELSE <<>>))

\* ContentBlockStop arm
FlushOnBlockStop(p) ==
    LET t == p.current_thinking # ""
        c == p.current_content # ""
    IN Step([p EXCEPT !.current_thinking = "", !.current_content = "",
                      !.has_streamed_content = @ \/ t \/ c],
            (IF t THEN <<Entry("ThinkingMessage", p.current_thinking)>>
             ELSE <<>>)
            \o (IF c THEN <<Entry("AssistantMessage", p.current_content)>>
                ELSE <<>>))

\* Result arm that pushes Ended before the pending text
HandleResultEndedFirst(p) ==
    LET t == p.current_thinking # ""
        c == p.current_content # ""
    IN Step([p EXCEPT !.current_thinking = "", !.current_content = "",
                      !.has_streamed_content = @ \/ t],
            <<Ended>>
            \o (IF t THEN <<Entry("ThinkingMessage", p.current_thinking)>>
                ELSE <<>>)
            \o (IF c THEN <<Entry("AssistantMessage", p.current_content)>>
                ELSE <<>>))

\* Result arm
HandleResult(p) ==
    LET t == p.current_thinking # ""
        c == p.current_content # ""
    IN Step([p EXCEPT !.current_thinking = "", !.current_content = "",
                      !.has_streamed_content = @ \/ t],
            (IF t THEN <<Entry("ThinkingMessage", p.current_thinking)>>
             ELSE <<>>)
            \o (IF c THEN <<Entry("AssistantMessage", p.current_content)>>
                ELSE <<>>)
            \o <<Ended>>)

\* StreamEvent arm that emits an entry for every text delta
HandleStreamEventPerDelta(p, m) ==
    IF m.event = "text_delta"
    THEN Step([p EXCEPT !.has_streamed_content = TRUE],
              <<Entry("AssistantMessage", m.text)>>)
    ELSE IF m.event = "thinking_delta"
    THEN Step([p EXCEPT !.has_streamed_content = TRUE,
                        !.current_thinking = @ \o m.text], <<>>)
    ELSE IF m.event = "input_json_delta"
    THEN Step([p EXCEPT !.has_streamed_content = TRUE], <<>>)
    ELSE IF m.event = "content_block_stop" THEN FlushOnBlockStop(p)
    ELSE Step(p, <<>>)

\* StreamEvent arm
HandleStreamEvent(p, m) ==
    IF m.event = "text_delta"
    THEN Step([p EXCEPT !.has_streamed_content = TRUE,
                        !.current_content = @ \o m.text], <<>>)
    ELSE IF m.event = "thinking_delta"
    THEN Step([p EXCEPT !.has_streamed_content = TRUE,
                        !.current_thinking = @ \o m.text], <<>>)
    ELSE IF m.event = "input_json_delta"
    THEN Step([p EXCEPT !.has_streamed_content = TRUE], <<>>)
    ELSE IF m.event = "content_block_stop" THEN FlushOnBlockStop(p)
    ELSE Step(p, <<>>)

\* Error arm that prefers the error text: error.or(message)
ErrorTextErrorFirst(m) ==
    IF m.error # NoText THEN m.error.v
    ELSE IF m.message # NoText THEN m.message.v
    ELSE "Unknown error"

\* Error arm: message.or(error).unwrap_or("Unknown error")
ErrorText(m) ==
    IF m.message # NoText THEN m.message.v
    ELSE IF m.error # NoText THEN m.error.v
    ELSE "Unknown error"

\* handle_message
HandleMessage(p, m) ==
    IF m.type = "system" THEN Step(p, <<>>)
    ELSE IF m.type = "user"
    THEN Step(p, IF m.content = NoText THEN <<>>
                 ELSE <<Entry("UserMessage", m.content.v)>>)
    ELSE IF m.type = "assistant"
    THEN Step([p EXCEPT !.suggested_edits = @ \o CollectedEdits(m.content)],
              AssistantBlocks(p, m.content))
    ELSE IF m.type = "stream_event" THEN HandleStreamEvent(p, m)
    ELSE IF m.type = "result" THEN HandleResult(p)
    ELSE Step(p, <<Entry("ErrorMessage", ErrorText(m))>>)

\* serde_json::from_str::<ClaudeMessage>: a line decodes when it is the
\* whole text of one JSON record; blanks around the record are skipped
Decodes(line) ==
    LET t == Trim(line)
    IN \/ Len(t) = 1 /\ t[1].t = "json"
       \/ /\ Len(t) = 2
          /\ t[1].t = "part" /\ t[1].i = 1
          /\ t[2].t = "part" /\ t[2].i = 2
          /\ t[1].msg = t[2].msg

\* The ClaudeMessage a decoding line holds
MsgOf(line) == Trim(line)[1].msg

\* process_line that drops the pending text on a line that does not decode
ProcessLineResetting(p, line) ==
    IF Decodes(line) THEN HandleMessage(p, MsgOf(line))
    ELSE Step([p EXCEPT !.current_content = "", !.current_thinking = ""],
              <<Raw(line)>>)

\* process_line
ProcessLine(p, line) ==
    IF Decodes(line) THEN HandleMessage(p, MsgOf(line))
    ELSE Step(p, <<Raw(line)>>)

\* The while loop of process_chunk over the complete lines of the buffer
RECURSIVE DrainLines(_)
DrainLines(p) ==
    LET pos == FindNL(p.buffer, 1)
    IN IF pos = 0 THEN Step(p, <<>>)
       ELSE LET line == Trim(SubSeq(p.buffer, 1, pos - 1))
                q == [p EXCEPT !.buffer = SubSeq(@, pos + 1, Len(@))]
                one == IF line # <<>> THEN ProcessLine(q, line)
                       ELSE Step(q, <<>>)
                rest == DrainLines(one.proc)
            IN Step(rest.proc, one.out \o rest.out)

\* process_chunk that also decodes what follows the last newline
ProcessChunkEager(p, chunk) ==
    LET d == DrainLines([p EXCEPT !.buffer = @ \o chunk])
        q == d.proc
        one == IF q.buffer # <<>>
               THEN ProcessLine([q EXCEPT !.buffer = <<>>], q.buffer)
               ELSE Step(q, <<>>)
    IN Step(one.proc, d.out \o one.out)

\* process_chunk
ProcessChunk(p, chunk) == DrainLines([p EXCEPT !.buffer = @ \o chunk])

\* flush that leaves the pending text in place
FlushKeepsPending(p) ==
    LET one == IF p.buffer # <<>>
               THEN ProcessLine([p EXCEPT !.buffer = <<>>], p.buffer)
               ELSE Step(p, <<>>)
        q == one.proc
        t == q.current_thinking # ""
        c == q.current_content # ""
    IN Step(q,
            one.out
            \o (IF t THEN <<Entry("ThinkingMessage", q.current_thinking)>>
                ELSE <<>>)
            \o (IF c THEN <<Entry("AssistantMessage", q.current_content)>>
                ELSE <<>>))

\* flush
Flush(p) ==
    LET one == IF p.buffer # <<>>
               THEN ProcessLine([p EXCEPT !.buffer = <<>>], p.buffer)
               ELSE Step(p, <<>>)
        q == one.proc
        t == q.current_thinking # ""
        c == q.current_content # ""
    IN Step([q EXCEPT !.current_thinking = "", !.current_content = ""],
            one.out
            \o (IF t THEN <<Entry("ThinkingMessage", q.current_thinking)>>
                ELSE <<>>)
            \o (IF c THEN <<Entry("AssistantMessage", q.current_content)>>
                ELSE <<>>))

\* ----------------------------------------------------------- message store
Producers == {"p1", "p2"}
Subscribers == {"s1", "s2"}
\* what the pushers of SpecStore push
StoreMsgs == {Started, Ended}

VARIABLES
    \* FeedbackSession.state
    state,
    \* where the run_feedback_session task stands
    pc,
    \* who holds the session's RwLock for writing across a suspension point
    sessLock,
    \* outcome of cmd.spawn(): "none" before it, then "ok" or "err"
    spawnResult,
    \* outcome of child.wait(): "none" before it, then "exit0", "exit1", "err"
    waitResult,
    \* stdout lines read so far
    linesRead,
    \* the runner's ClaudeLogProcessor
    proc,
    \* whether cancel_feedback was ever called on the session
    cancelled,
    \* every status a get_feedback call has returned
    observed,
    \* the last response of get_feedback
    response,
    \* MsgStore.history
    history,
    \* every value the broadcast channel accepted, oldest first; the channel
    \* retains the last ChanCapacity of them
    chan,
    \* per subscriber: whether it holds a Receiver, and the position of the
    \* next value it reads
    rx,
    \* per subscriber: the values recv() returned, in order
    got,
    \* per subscriber: whether a recv() returned Lagged
    lagged,
    \* per pusher of SpecStore: the message between its append and its send
    prod,
    \* every message ever appended to history (clear() does not touch it)
    pushed,
    \* whether clear() was ever called
    cleared,
    \* whether clear() was called since the first recorded get_history
    clearedSince,
    \* an earlier and a later snapshot returned by get_history, in that
    \* order, each with what had been pushed and cleared by then
    snaps,
    \* every message handed to sender.send, in send order
    sendLog,
    \* per subscriber: Len(sendLog) when it subscribed
    subAt,
    \* SpecNorm, SpecChunks, SpecBlocks: "feed" while input is accepted,
    \* "partial" after a chunk with no newline, "flushed" and "flushed2"
    \* after the first and the second flush()
    nphase,
    \* the lines (SpecChunks: the chunks) handed to process_chunk so far
    nlines,
    \* the last processor call: its kind, its input, the processor before it
    \* and the messages it pushed
    nlast,
    \* every message the processor pushed, in push order, each with the line
    \* at which it was pushed, the range lo..hi of the lines whose content it
    \* carries, and where the content came from: the "line" itself, the
    \* "content" or the "thinking" accumulator
    nemit,
    \* the line ranges of the text held by the two accumulators
    accSrc,
    \* SpecChunks: the part of the stream not yet handed to process_chunk
    stream,
    \* SpecBlocks: the content blocks of the Assistant record to come
    nblocks,
    \* SpecEnv: ExecutionEnv.vars, a map from variable names to values
    envVars,
    \* SpecEnv: the last call on the environment: its kind, the map before
    \* it, the map it was given, and whether the call before it was a merge
    \* of the same map
    envLast,
    \* SpecSocket: where handle_feedback_socket stands: "idle" before the
    \* client connects, "history", "replay", "live", then "closed"
    sockPc,
    \* SpecSocket: the history messages the handler has still to send
    sockReplay,
    \* SpecSocket: the StreamMessages sent to the client, in send order
    sockSent,
    \* SpecPipes: what the agent process does once spawned: "run", "w_out"
    \* and "w_err" while it is inside a write to stdout or stderr, "exited"
    childPc,
    \* SpecPipes: the stdout line the process is writing
    childLine,
    \* SpecPipes: the lines in the stdout pipe, written and not yet read
    pipeOut,
    \* SpecPipes: the number of lines in the stderr pipe
    pipeErr,
    \* SpecPipes: the process has its end of stdout, of stderr, open
    outOpen,
    errOpen,
    \* SpecPipes: every line the process wrote to stdout, in order
    outWritten,
    \* SpecPipes: every line next_line() returned to the stdout loop
    outRead,
    \* SpecPipes: the number of lines the process wrote to stderr
    errWritten,
    \* SpecPipes: how the stdout loop ended: "open" while it runs, then "eof"
    \* for Ok(None), "err" for Err
    stdoutEnd,
    \* SpecLocks: the ids in AppState.sessions
    sessions,
    \* SpecLocks: who holds the RwLock of AppState.sessions
    sessionsLock,
    \* SpecLocks: per session, who holds the RwLock of the FeedbackSession
    sessionLock,
    \* SpecLocks: per session, who holds the Mutex of MsgStore.history
    historyLock,
    \* SpecLocks: per session, FeedbackSession.state ("none": not created)
    sessionState,
    \* SpecLocks: per session, where its run_feedback_session task stands
    runner,
    \* SpecLocks: per request handler, its operation, its session, where it
    \* stands and the session state it left behind
    handler,
    \* the last agent invocation that was built: who built it and from what
    cmdCall,
    \* its argument list, after the program name npx
    cmdArgs

sessionVars ==
    <<state, pc, sessLock, spawnResult, waitResult, linesRead, proc,
      cancelled, observed, response>>
storeVars == <<history, chan, rx, got, lagged, pushed, sendLog, subAt>>
storeOnlyVars == <<prod, cleared, clearedSince, snaps>>
normVars == <<nphase, nlines, nlast, nemit, accSrc, stream, nblocks>>
envTuple == <<envVars, envLast>>
sockTuple == <<sockPc, sockReplay, sockSent>>
childVars ==
    <<childPc, childLine, pipeOut, pipeErr, outOpen, errOpen, outWritten,
      errWritten>>
pipeTuple == <<childVars, outRead, stdoutEnd>>
lockTuple ==
    <<sessions, sessionsLock, sessionLock, historyLock, sessionState, runner,
      handler>>
cmdTuple == <<cmdCall, cmdArgs>>
auxVars == <<envTuple, sockTuple, pipeTuple, lockTuple, cmdTuple>>
coreVars == <<sessionVars, storeVars, storeOnlyVars, normVars>>
vars == <<coreVars, auxVars>>
\* what the actions of one specification leave alone
exceptEnv == <<sockTuple, pipeTuple, lockTuple, cmdTuple>>
exceptSock == <<envTuple, pipeTuple, lockTuple, cmdTuple>>
exceptPipe == <<envTuple, sockTuple, lockTuple, cmdTuple>>
exceptLock == <<envTuple, sockTuple, pipeTuple, cmdTuple>>
exceptCmd == <<envTuple, sockTuple, pipeTuple, lockTuple>>

HasReceiver(r) == \E s \in Subscribers : r[s].on

\* broadcast::Sender::send: a value is stored only if a receiver exists
Send(ch, r, m) == IF HasReceiver(r) THEN Append(ch, m) ELSE ch

\* push that inserts at the front
HistoryPushFront(h, m) == <<m>> \o h

\* push that overwrites the history
HistoryPushReplace(h, m) == <<m>>

\* the history.push of MsgStore::push
HistoryPush(h, m) == Append(h, m)

\* pushes of one caller that land last first
RECURSIVE HistoryPushAllReversed(_, _)
HistoryPushAllReversed(h, ms) ==
    IF ms = <<>> THEN h
    ELSE HistoryPush(HistoryPushAllReversed(h, Tail(ms)), Head(ms))

RECURSIVE HistoryPushAll(_, _)
HistoryPushAll(h, ms) ==
    IF ms = <<>> THEN h ELSE HistoryPushAll(HistoryPush(h, Head(ms)), Tail(ms))

\* MsgStore::get_history
GetHistorySnapshot(h) == h

\* MsgStore::clear
ClearedHistory(h) == <<>>

\* subscribe that starts the receiver at the oldest value
SubscribeAtHead(ch) == 0

\* broadcast::Sender::subscribe: the receiver starts at the tail
SubscribeAt(ch) == Len(ch)

RECURSIVE SendAll(_, _, _)
SendAll(ch, r, ms) ==
    IF ms = <<>> THEN ch ELSE SendAll(Send(ch, r, Head(ms)), r, Tail(ms))

\* MsgStore::push, once per message of ms, by a caller that nothing
\* interleaves with
PushAll(ms) ==
    /\ history' = HistoryPushAll(history, ms)
    /\ pushed' = pushed \o ms
    /\ chan' = SendAll(chan, rx, ms)
    /\ sendLog' = sendLog \o ms
    /\ UNCHANGED <<rx, got, lagged, subAt>>

\* push that stores the message only while a receiver exists
PushAppendIfReceiver(p, m) ==
    /\ prod[p].pc = "idle"
    /\ Len(pushed) < MaxPush
    /\ history' = IF HasReceiver(rx) THEN HistoryPush(history, m) ELSE history
    /\ pushed' = Append(pushed, m)
    /\ prod' = [prod EXCEPT ![p] = [pc |-> "send", msg |-> m]]
    /\ UNCHANGED <<sessionVars, chan, rx, got, lagged, sendLog, subAt,
                   cleared, clearedSince, snaps, normVars, auxVars>>

\* MsgStore::push up to drop(history)
PushAppend(p, m) ==
    /\ prod[p].pc = "idle"
    /\ Len(pushed) < MaxPush
    /\ history' = HistoryPush(history, m)
    /\ pushed' = Append(pushed, m)
    /\ prod' = [prod EXCEPT ![p] = [pc |-> "send", msg |-> m]]
    /\ UNCHANGED <<sessionVars, chan, rx, got, lagged, sendLog, subAt,
                   cleared, clearedSince, snaps, normVars, auxVars>>

\* MsgStore::push from sender.send on
PushSend(p) ==
    /\ prod[p].pc = "send"
    /\ chan' = Send(chan, rx, prod[p].msg)
    /\ sendLog' = Append(sendLog, prod[p].msg)
    /\ prod' = [prod EXCEPT ![p] = [pc |-> "idle", msg |-> Started]]
    /\ UNCHANGED <<sessionVars, history, pushed, rx, got, lagged, subAt,
                   cleared, clearedSince, snaps, normVars, auxVars>>

\* MsgStore::subscribe
Subscribe(s) ==
    /\ ~rx[s].on
    /\ rx' = [rx EXCEPT ![s] = [on |-> TRUE, next |-> SubscribeAt(chan)]]
    /\ subAt' = [subAt EXCEPT ![s] = Len(sendLog)]
    /\ UNCHANGED <<sessionVars, history, chan, got, lagged, pushed, sendLog,
                   storeOnlyVars, normVars, auxVars>>

\* broadcast::Receiver::recv with a value pending: Lagged when the next
\* value was overwritten, the value otherwise
Recv(s) ==
    /\ rx[s].on
    /\ rx[s].next < Len(chan)
    /\ IF Len(chan) - rx[s].next > ChanCapacity
       THEN /\ rx' = [rx EXCEPT ![s].next = Len(chan) - ChanCapacity]
            /\ lagged' = [lagged EXCEPT ![s] = TRUE]
            /\ got' = got
       ELSE /\ rx' = [rx EXCEPT ![s].next = @ + 1]
            /\ got' = [got EXCEPT ![s] = Append(@, chan[rx[s].next + 1])]
            /\ lagged' = lagged
    /\ UNCHANGED <<sessionVars, history, chan, pushed, sendLog, subAt,
                   storeOnlyVars, normVars, auxVars>>

\* What a get_history call is recorded as
Snapshot(h) ==
    [hist |-> GetHistorySnapshot(h), pushed |-> pushed, cleared |-> cleared,
     clearedSince |-> clearedSince]

\* MsgStore::get_history, the earlier of two recorded calls. A call that is
\* not recorded changes nothing, so any two calls of a run are covered.
GetHistoryEarlier ==
    /\ snaps = <<>>
    /\ snaps' = <<Snapshot(history)>>
    /\ clearedSince' = FALSE
    /\ UNCHANGED <<sessionVars, storeVars, prod, cleared, normVars, auxVars>>

\* MsgStore::get_history, the later of two recorded calls
GetHistoryLater ==
    /\ Len(snaps) = 1
    /\ snaps' = Append(snaps, Snapshot(history))
    /\ UNCHANGED <<sessionVars, storeVars, prod, cleared, clearedSince,
                   normVars, auxVars>>

\* MsgStore::clear
Clear ==
    /\ history' = ClearedHistory(history)
    /\ cleared' = TRUE
    /\ clearedSince' = TRUE
    /\ UNCHANGED <<sessionVars, chan, rx, got, lagged, pushed, sendLog, subAt,
                   prod, snaps, normVars, auxVars>>

\* ----------------------------------------------------------------- session
\* e.to_string() of the io::Error of a failed spawn
SpawnErrText == "No such file or directory (os error 2)"

\* What one stdout line of the agent process may hold
StdoutLines ==
    { <<Junk("npm warn")>>,
      <<SP>>,
      <<Json(ErrorMsg(Some("boom"), NoText))>>,
      <<Json(TextDelta("Hel"))>>,
      <<Json(BlockStop)>>,
      <<Json(AssistantMsg(<<TextBlock("Hi")>>))>>,
      <<Json(AssistantMsg(<<TextBlock("")>>))>>,
      <<Json(ResultMsg(FALSE))>> }

\* unwrap_or(true): an error of wait() counts as success
ExitSuccessOnWaitErr(w) == w # "exit1"

\* status.map(|st| st.success()).unwrap_or(false)
ExitSuccess(w) == w = "exit0"

\* The state run_feedback_session writes after child.wait()
FinalState(w) == IF ExitSuccess(w) THEN "Completed" ELSE "Failed"

\* The state cancel_feedback writes
CancelState(cur) == "Cancelled"

\* The state run_feedback_session writes when it starts
StartState(cur) == "Running"

\* a mapping that reports a cancelled session as completed
StatusOfCancelledCompleted(st) ==
    IF st = "Pending" THEN "Pending"
    ELSE IF st = "Running" THEN "Processing"
    ELSE IF st = "Failed" THEN "Failed"
    ELSE "Completed"

\* get_feedback: SessionState -> FeedbackStatus
StatusOf(st) ==
    IF st = "Pending" THEN "Pending"
    ELSE IF st = "Running" THEN "Processing"
    ELSE IF st = "Completed" THEN "Completed"
    ELSE "Failed"

RECURSIVE AssistantContents(_)
AssistantContents(h) ==
    IF h = <<>> THEN <<>>
    ELSE (IF Head(h).kind = "Entry" /\ Head(h).entry_type = "AssistantMessage"
          THEN <<Head(h).content>> ELSE <<>>)
         \o AssistantContents(Tail(h))

\* [String]::join("\n")
RECURSIVE JoinLines(_)
JoinLines(ss) ==
    IF ss = <<>> THEN ""
    ELSE IF Len(ss) = 1 THEN ss[1]
    ELSE ss[1] \o "\n" \o JoinLines(Tail(ss))

\* get_feedback: content is None when the joined text is empty
ContentOf(h) ==
    LET c == JoinLines(AssistantContents(h))
    IN IF c = "" THEN NoText ELSE Some(c)

\* run_feedback_session, "Update state to running"
RunnerSetRunning ==
    /\ pc = "start"
    /\ sessLock = "free"
    /\ state' = StartState(state)
    /\ pc' = "spawn"
    /\ UNCHANGED <<sessLock, spawnResult, waitResult, linesRead, proc,
                   cancelled, observed, response, storeVars, storeOnlyVars,
                   normVars, auxVars>>

\* cmd.spawn() returns Ok(child); the processor is created
RunnerSpawnOk ==
    /\ pc = "spawn"
    /\ spawnResult' = "ok"
    /\ proc' = NewProcessor
    /\ pc' = "stdout"
    /\ UNCHANGED <<state, sessLock, waitResult, linesRead, cancelled,
                   observed, response, storeVars, storeOnlyVars, normVars,
                   auxVars>>

\* cmd.spawn() returns Err(e)
RunnerSpawnErr ==
    /\ pc = "spawn"
    /\ spawnResult' = "err"
    /\ pc' = "spawn_failed"
    /\ UNCHANGED <<state, sessLock, waitResult, linesRead, proc, cancelled,
                   observed, response, storeVars, storeOnlyVars, normVars,
                   auxVars>>

\* Err arm with the guard dropped right after the assignment
RunnerFailSpawnUnlocked ==
    /\ pc = "spawn_failed"
    /\ sessLock = "free"
    /\ sessLock' = "free"
    /\ state' = "Failed"
    /\ pc' = "push_error"
    /\ UNCHANGED <<spawnResult, waitResult, linesRead, proc, cancelled,
                   observed, response, storeVars, storeOnlyVars, normVars,
                   auxVars>>

\* Err arm: the write lock is taken and the state set; the guard s lives to
\* the end of the arm
RunnerFailSpawn ==
    /\ pc = "spawn_failed"
    /\ sessLock = "free"
    /\ sessLock' = "runner"
    /\ state' = "Failed"
    /\ pc' = "push_error"
    /\ UNCHANGED <<spawnResult, waitResult, linesRead, proc, cancelled,
                   observed, response, storeVars, storeOnlyVars, normVars,
                   auxVars>>

\* Err arm: msg_store.push_error(e.to_string()), then the guard is dropped
RunnerPushSpawnError ==
    /\ pc = "push_error"
    /\ PushAll(<<Error(SpawnErrText)>>)
    /\ sessLock' = "free"
    /\ pc' = "done"
    /\ UNCHANGED <<state, spawnResult, waitResult, linesRead, proc,
                   cancelled, observed, response, storeOnlyVars, normVars,
                   auxVars>>

\* One turn of the stdout loop: process_chunk(&line), process_chunk("\n")
RunnerReadLine(line) ==
    /\ pc = "stdout"
    /\ linesRead < MaxLines
    /\ LET a == ProcessChunk(proc, line)
           b == ProcessChunk(a.proc, <<NL>>)
       IN /\ proc' = b.proc
          /\ PushAll(a.out \o b.out)
    /\ linesRead' = linesRead + 1
    /\ UNCHANGED <<state, pc, sessLock, spawnResult, waitResult, cancelled,
                   observed, response, storeOnlyVars, normVars, auxVars>>

\* next_line() returns Ok(None) or Err: the loop ends, processor.flush()
RunnerStdoutEnd ==
    /\ pc = "stdout"
    /\ LET f == Flush(proc)
       IN /\ proc' = f.proc
          /\ PushAll(f.out)
    /\ pc' = "stderr"
    /\ UNCHANGED <<state, sessLock, spawnResult, waitResult, linesRead,
                   cancelled, observed, response, storeOnlyVars, normVars,
                   auxVars>>

\* The stderr loop runs to its end; its lines are only logged
RunnerDrainStderr ==
    /\ pc = "stderr"
    /\ pc' = "wait"
    /\ UNCHANGED <<state, sessLock, spawnResult, waitResult, linesRead, proc,
                   cancelled, observed, response, storeVars, storeOnlyVars,
                   normVars, auxVars>>

\* child.wait() returns
RunnerWait(w) ==
    /\ pc = "wait"
    /\ waitResult' = w
    /\ pc' = "set_final"
    /\ UNCHANGED <<state, sessLock, spawnResult, linesRead, proc, cancelled,
                   observed, response, storeVars, storeOnlyVars, normVars,
                   auxVars>>

\* Ok arm, "Update session state"
RunnerSetFinal ==
    /\ pc = "set_final"
    /\ sessLock = "free"
    /\ state' = FinalState(waitResult)
    /\ pc' = "done"
    /\ UNCHANGED <<sessLock, spawnResult, waitResult, linesRead, proc,
                   cancelled, observed, response, storeVars, storeOnlyVars,
                   normVars, auxVars>>

\* cancel_feedback that also ends the runner, as if it killed the process
CancelFeedbackStopsRunner ==
    /\ sessLock = "free"
    /\ state' = CancelState(state)
    /\ cancelled' = TRUE
    /\ pc' = "done"
    /\ UNCHANGED <<sessLock, spawnResult, waitResult, linesRead, proc,
                   observed, response, storeVars, storeOnlyVars, normVars,
                   auxVars>>

\* cancel_feedback
CancelFeedback ==
    /\ sessLock = "free"
    /\ state' = CancelState(state)
    /\ cancelled' = TRUE
    /\ UNCHANGED <<pc, sessLock, spawnResult, waitResult, linesRead, proc,
                   observed, response, storeVars, storeOnlyVars, normVars,
                   auxVars>>

\* get_feedback
GetFeedback ==
    /\ sessLock = "free"
    /\ response' = [status |-> StatusOf(state), content |-> ContentOf(history)]
    /\ observed' = observed \cup {StatusOf(state)}
    /\ UNCHANGED <<state, pc, sessLock, spawnResult, waitResult, linesRead,
                   proc, cancelled, storeVars, storeOnlyVars, normVars,
                   auxVars>>

\* -------------------------------------------------------- normalizer runs
\* What one line handed to the processor of SpecNorm may hold
NormLines ==
    { <<Junk("oops")>>,
      <<SP>>,
      <<SP, Junk("oops"), SP>>,
      <<Json(TextDelta("Hel"))>>,
      <<Json(TextDelta("lo"))>>,
      <<Json(ThinkingDelta("Hm"))>>,
      <<Json(BlockStop)>>,
      <<Json(MessageStart)>>,
      <<Json(AssistantMsg(<<ThinkingBlock("T"), TextBlock("Hi")>>))>>,
      <<Json(ResultMsg(FALSE))>>,
      <<Json(ResultMsg(TRUE))>> }

\* What one line handed to the processor of SpecEvents may hold
EventLines ==
    { <<Json(InputJsonDelta)>>,
      <<Json(BlockStart)>>,
      <<Json(BlockStop)>>,
      <<Json(MessageStart)>>,
      <<Json(MessageDelta)>>,
      <<Json(MessageStop)>>,
      <<Json(TextDelta("Hel"))>>,
      <<Json(ThinkingDelta("Hm"))>>,
      <<Json(AssistantMsg(<<ThinkingBlock("T"), TextBlock("Hi")>>))>>,
      <<Json(ErrorMsg(Some("boom"), Some("E42")))>>,
      <<Json(ErrorMsg(NoText, Some("E42")))>>,
      <<Json(ErrorMsg(NoText, NoText))>> }

\* What the stream may end with after its last newline
NormPartials == { <<Json(TextDelta("lo"))>>, <<Junk("oops")>> }

\* The tokens of the stream of SpecChunks
ChunkTokens ==
    { NL, SP, Junk("oops"),
      JsonPart(ResultMsg(FALSE), 1), JsonPart(ResultMsg(FALSE), 2),
      Json(TextDelta("Hel")) }

Streams == UNION { [1..n -> ChunkTokens] : n \in 0..MaxStream }

\* The input of a tool-use block, as far as parse_suggested_edit reads it
EditInput(original, suggested, explanation) ==
    [original_text |-> original, suggested_text |-> suggested,
     explanation |-> explanation]

\* The content blocks of the Assistant record of SpecBlocks
BlockKinds ==
    { TextBlock("Hi"),
      ThinkingBlock("T"),
      ToolUseBlock("t1", "suggest_edit",
                   EditInput(Some("teh"), Some("the"), Some("typo"))),
      ToolUseBlock("t2", "suggest_edit",
                   EditInput(Some("teh"), Some("the"), NoText)),
      ToolUseBlock("t3", "suggest_edit",
                   EditInput(NoText, Some("the"), Some("typo"))),
      ToolUseBlock("t4", "suggest_edit",
                   EditInput(Some("teh"), NoText, Some("typo"))),
      ToolUseBlock("t5", "search", [query |-> "teh"]) }

BlockSeqs == UNION { [1..n -> BlockKinds] : n \in 1..MaxBlocks }

\* No line range: the accumulator is empty
NoSrc == [lo |-> 0, hi |-> 0]

\* The line range of an accumulator after the delta of line n was added
Extend(r, n) == IF r = NoSrc THEN [lo |-> n, hi |-> n] ELSE [r EXCEPT !.hi = n]

\* The line ranges of the accumulators after line n was handled and before
\* anything is flushed
AccAfterLine(acc, line, n) ==
    IF ~Decodes(line) THEN acc
    ELSE IF MsgOf(line).type # "stream_event" THEN acc
    ELSE IF MsgOf(line).event = "text_delta"
    THEN [acc EXCEPT !.content = Extend(@, n)]
    ELSE IF MsgOf(line).event = "thinking_delta"
    THEN [acc EXCEPT !.thinking = Extend(@, n)]
    ELSE acc

\* A line whose handling empties the accumulators
IsFlushPoint(line) ==
    /\ Decodes(line)
    /\ \/ MsgOf(line).type = "result"
       \/ /\ MsgOf(line).type = "stream_event"
          /\ MsgOf(line).event = "content_block_stop"

\* The messages pushed while line n was handled, each with the lines whose
\* content it carries: the accumulator's lines for an entry flushed from an
\* accumulator, line n for every other message
Tags(out, n, acc, flushing) ==
    [i \in 1..Len(out) |->
        LET e == out[i]
            ty == IF e.kind = "Entry" THEN e.entry_type ELSE "none"
        IN IF flushing /\ ty = "ThinkingMessage"
           THEN [msg |-> e, src |-> "thinking", at |-> n,
                 lo |-> acc.thinking.lo, hi |-> acc.thinking.hi]
           ELSE IF flushing /\ ty = "AssistantMessage"
           THEN [msg |-> e, src |-> "content", at |-> n,
                 lo |-> acc.content.lo, hi |-> acc.content.hi]
           ELSE [msg |-> e, src |-> "line", at |-> n, lo |-> n, hi |-> n]]

\* A processor call as nlast records it
Call(op, line, before, out) ==
    [op |-> op, line |-> line, before |-> before, out |-> out]

NoCall == Call("none", <<>>, NewProcessor, <<>>)

\* process_chunk of one line and its newline
NormLine(line) ==
    /\ nphase = "feed"
    /\ Len(nlines) < MaxNormLines
    /\ LET r == ProcessChunk(proc, line \o <<NL>>)
           n == Len(nlines) + 1
           fl == IsFlushPoint(line)
       IN /\ proc' = r.proc
          /\ PushAll(r.out)
          /\ nlast' = Call("line", line, proc, r.out)
          /\ nemit' = nemit \o Tags(r.out, n, accSrc, fl)
          /\ accSrc' = IF fl THEN [content |-> NoSrc, thinking |-> NoSrc]
                       ELSE AccAfterLine(accSrc, line, n)
    /\ nlines' = Append(nlines, line)
    /\ UNCHANGED <<state, pc, sessLock, spawnResult, waitResult, linesRead,
                   cancelled, observed, response, storeOnlyVars, nphase,
                   stream, nblocks, auxVars>>

\* process_chunk of the last line of a stream that does not end in a newline
NormPartial(line) ==
    /\ nphase = "feed"
    /\ Len(nlines) < MaxNormLines
    /\ LET r == ProcessChunk(proc, line)
       IN /\ proc' = r.proc
          /\ PushAll(r.out)
          /\ nlast' = Call("partial", line, proc, r.out)
    /\ nlines' = Append(nlines, line)
    /\ nphase' = "partial"
    /\ UNCHANGED <<state, pc, sessLock, spawnResult, waitResult, linesRead,
                   cancelled, observed, response, storeOnlyVars, nemit,
                   accSrc, stream, nblocks, auxVars>>

\* flush, a first and a second time
NormFlush ==
    /\ nphase \in {"feed", "partial", "flushed"}
    /\ LET r == Flush(proc)
           n == Len(nlines)
           acc == IF nphase = "partial"
                  THEN AccAfterLine(accSrc, proc.buffer, n) ELSE accSrc
       IN /\ proc' = r.proc
          /\ PushAll(r.out)
          /\ nlast' = Call("flush", <<>>, proc, r.out)
          /\ nemit' = nemit \o Tags(r.out, n, acc, TRUE)
    /\ accSrc' = [content |-> NoSrc, thinking |-> NoSrc]
    /\ nphase' = IF nphase = "flushed" THEN "flushed2" ELSE "flushed"
    /\ UNCHANGED <<state, pc, sessLock, spawnResult, waitResult, linesRead,
                   cancelled, observed, response, storeOnlyVars, nlines,
                   stream, nblocks, auxVars>>

\* process_chunk of the next k tokens of the stream
ChunkFeed(k) ==
    /\ nphase = "feed"
    /\ k <= Len(stream)
    /\ LET chunk == SubSeq(stream, 1, k)
           r == ProcessChunk(proc, chunk)
       IN /\ proc' = r.proc
          /\ PushAll(r.out)
          /\ nlast' = Call("chunk", chunk, proc, r.out)
          /\ nlines' = Append(nlines, chunk)
    /\ stream' = SubSeq(stream, k + 1, Len(stream))
    /\ UNCHANGED <<state, pc, sessLock, spawnResult, waitResult, linesRead,
                   cancelled, observed, response, storeOnlyVars, nphase,
                   nemit, accSrc, nblocks, auxVars>>

\* flush at the end of the stream
ChunkFlush ==
    /\ nphase = "feed"
    /\ stream = <<>>
    /\ LET r == Flush(proc)
       IN /\ proc' = r.proc
          /\ PushAll(r.out)
          /\ nlast' = Call("flush", <<>>, proc, r.out)
    /\ nphase' = "flushed"
    /\ UNCHANGED <<state, pc, sessLock, spawnResult, waitResult, linesRead,
                   cancelled, observed, response, storeOnlyVars, nlines,
                   nemit, accSrc, stream, nblocks, auxVars>>

\* A text delta handled before the Assistant record arrives
BlocksStreamFirst ==
    /\ nlines = <<>>
    /\ nblocks # <<>>
    /\ NormLine(<<Json(TextDelta("Hel"))>>)

\* process_chunk of the Assistant record and its newline
BlocksDeliver ==
    /\ nphase = "feed"
    /\ nblocks # <<>>
    /\ LET line == <<Json(AssistantMsg(nblocks))>>
           r == ProcessChunk(proc, line \o <<NL>>)
       IN /\ proc' = r.proc
          /\ PushAll(r.out)
          /\ nlast' = Call("line", line, proc, r.out)
          /\ nlines' = Append(nlines, line)
    /\ nphase' = "partial"
    /\ UNCHANGED <<state, pc, sessLock, spawnResult, waitResult, linesRead,
                   cancelled, observed, response, storeOnlyVars, nemit,
                   accSrc, stream, nblocks, auxVars>>

\* ------------------------------------------------------- ExecutionEnv
\* variable names and values an environment is built from
EnvKeys == {"KEY1", "KEY2", "KEY3"}
EnvValues == {"a", "b"}

\* ExecutionEnv::new(): no variables
NewEnv == [k \in {} |-> ""]

\* every HashMap<String, String> over EnvKeys
EnvMaps == UNION {[d -> EnvValues] : d \in SUBSET EnvKeys}

\* or_insert: the value a key already has is kept
InsertKeepsExisting(m, key, value) ==
    [k \in DOMAIN m \cup {key} |-> IF k \in DOMAIN m THEN m[k] ELSE value]

\* HashMap::insert: the key maps to the value, whatever it mapped to before
Insert(m, key, value) ==
    [k \in DOMAIN m \cup {key} |-> IF k = key THEN value ELSE m[k]]

\* HashMap::extend: every pair of the other map is inserted, in the order
\* the other map iterates (the keys of a map are distinct, so the order
\* makes no difference)
RECURSIVE ExtendMap(_, _)
ExtendMap(m, other) ==
    IF DOMAIN other = {} THEN m
    ELSE LET key == CHOOSE k \in DOMAIN other : TRUE
             rest == [k \in DOMAIN other \ {key} |-> other[k]]
         IN  ExtendMap(Insert(m, key, other[key]), rest)

\* ExecutionEnv::merge
Merge(m, other) == ExtendMap(m, other)

\* ExecutionEnv::with_overrides: merge, then the environment itself
WithOverrides(m, overrides) == Merge(m, overrides)

\* ExecutionEnv::get and contains_key
ContainsKey(m, key) == key \in DOMAIN m
Get(m, key) == IF key \in DOMAIN m THEN Some(m[key]) ELSE NoText

EnvCall(op, before, other, again) ==
    [op |-> op, before |-> before, other |-> other, again |-> again]
NoEnvCall == EnvCall("none", NewEnv, NewEnv, FALSE)

\* the call before this one merged the same map
MergedBefore(other) ==
    envLast.op \in {"merge", "with_overrides"} /\ envLast.other = other

\* env.insert(key, value)
EnvInsert(key, value) ==
    /\ envVars' = Insert(envVars, key, value)
    /\ envLast' = EnvCall("insert", envVars, Insert(NewEnv, key, value),
                          FALSE)
    /\ UNCHANGED <<coreVars, exceptEnv>>

\* env.merge(other)
EnvMerge(other) ==
    /\ envVars' = Merge(envVars, other)
    /\ envLast' = EnvCall("merge", envVars, other, MergedBefore(other))
    /\ UNCHANGED <<coreVars, exceptEnv>>

\* env = env.with_overrides(overrides)
EnvWithOverrides(overrides) ==
    /\ envVars' = WithOverrides(envVars, overrides)
    /\ envLast' = EnvCall("with_overrides", envVars, overrides,
                          MergedBefore(overrides))
    /\ UNCHANGED <<coreVars, exceptEnv>>

\* ------------------------------------------------- feedback websocket
\* StreamMessage
Chunk(c) == [type |-> "chunk", content |-> c]
Thinking(c) == [type |-> "thinking", content |-> c]
Complete == [type |-> "complete"]
StreamError(m) == [type |-> "error", message |-> m]

\* log_msg_to_stream_message
LogMsgToStreamMessage(m) ==
    IF m.kind = "Entry"
    THEN IF m.entry_type = "AssistantMessage" THEN Chunk(m.content)
         ELSE IF m.entry_type = "ThinkingMessage" THEN Thinking(m.content)
         ELSE IF m.entry_type = "ErrorMessage" THEN StreamError(m.content)
         ELSE Chunk(m.content)
    ELSE IF m.kind = "Ended" THEN Complete
    ELSE IF m.kind = "Error" THEN StreamError(m.text)
    ELSE Chunk("")

\* the receiver of the websocket handler
SocketRx == "s1"

\* handle_feedback_socket, up to subscribe(): the store is cloned out of
\* the session under a read guard, so a writer holding the session's lock
\* is waited for
SocketSubscribe ==
    /\ sockPc = "idle"
    /\ sessLock = "free"
    /\ rx' = [rx EXCEPT ![SocketRx] =
                 [on |-> TRUE, next |-> SubscribeAt(chan)]]
    /\ subAt' = [subAt EXCEPT ![SocketRx] = Len(sendLog)]
    /\ sockPc' = "history"
    /\ UNCHANGED <<sessionVars, history, chan, got, lagged, pushed, sendLog,
                   storeOnlyVars, normVars, sockReplay, sockSent,
                   exceptSock>>

\* let history = msg_store.get_history().await
SocketGetHistory ==
    /\ sockPc = "history"
    /\ sockReplay' = GetHistorySnapshot(history)
    /\ sockPc' = "replay"
    /\ UNCHANGED <<coreVars, sockSent, exceptSock>>

\* a replay loop that walks the snapshot from its newest message
SocketReplayNewestFirst ==
    /\ sockPc = "replay"
    /\ sockReplay # <<>>
    /\ sockSent' = Append(sockSent,
                          LogMsgToStreamMessage(sockReplay[Len(sockReplay)]))
    /\ sockReplay' = SubSeq(sockReplay, 1, Len(sockReplay) - 1)
    /\ UNCHANGED <<coreVars, sockPc, exceptSock>>

\* one turn of the replay loop whose send succeeds
SocketReplay ==
    /\ sockPc = "replay"
    /\ sockReplay # <<>>
    /\ sockSent' = Append(sockSent, LogMsgToStreamMessage(Head(sockReplay)))
    /\ sockReplay' = Tail(sockReplay)
    /\ UNCHANGED <<coreVars, sockPc, exceptSock>>

\* a handler that subscribes only once the replay is through
SocketReplayDoneSubscribes ==
    /\ sockPc = "replay"
    /\ sockReplay = <<>>
    /\ sockPc' = "live"
    /\ rx' = [rx EXCEPT ![SocketRx] =
                 [on |-> TRUE, next |-> SubscribeAt(chan)]]
    /\ UNCHANGED <<sessionVars, history, chan, got, lagged, pushed, sendLog,
                   subAt, storeOnlyVars, normVars, sockReplay, sockSent,
                   exceptSock>>

\* the replay loop is through: the live loop starts
SocketReplayDone ==
    /\ sockPc = "replay"
    /\ sockReplay = <<>>
    /\ sockPc' = "live"
    /\ UNCHANGED <<coreVars, sockReplay, sockSent, exceptSock>>

\* the rx.recv() arm of the live loop: a received message is converted and
\* sent, Err (the receiver lagged) breaks the loop
SocketRecv ==
    /\ sockPc = "live"
    /\ rx[SocketRx].next < Len(chan)
    /\ IF Len(chan) - rx[SocketRx].next > ChanCapacity
       THEN /\ lagged' = [lagged EXCEPT ![SocketRx] = TRUE]
            /\ rx' = [rx EXCEPT ![SocketRx].on = FALSE]
            /\ sockPc' = "closed"
            /\ UNCHANGED <<got, sockSent>>
       ELSE /\ rx' = [rx EXCEPT ![SocketRx].next = @ + 1]
            /\ got' = [got EXCEPT ![SocketRx] =
                          Append(@, chan[rx[SocketRx].next + 1])]
            /\ sockSent' = Append(sockSent,
                   LogMsgToStreamMessage(chan[rx[SocketRx].next + 1]))
            /\ UNCHANGED <<lagged, sockPc>>
    /\ UNCHANGED <<sessionVars, history, chan, pushed, sendLog, subAt,
                   storeOnlyVars, normVars, sockReplay, exceptSock>>

\* the client closed the connection, or a send failed: the replay loop
\* returns, the live loop breaks, the receiver is dropped
SocketClosed ==
    /\ sockPc \in {"replay", "live"}
    /\ sockPc' = "closed"
    /\ rx' = [rx EXCEPT ![SocketRx].on = FALSE]
    /\ UNCHANGED <<sessionVars, history, chan, got, lagged, pushed, sendLog,
                   subAt, storeOnlyVars, normVars, sockReplay, sockSent,
                   exceptSock>>

\* ------------------------------------------------- the process's pipes
\* a line that is not valid UTF-8: next_line() returns Err for it
BadUtf8 == [t |-> "bad_utf8"]

\* What the agent process of SpecPipes writes to stdout
PipeLines ==
    { <<Json(TextDelta("Hel"))>>,
      <<Json(ResultMsg(FALSE))>>,
      <<BadUtf8>> }

\* The runner has the read end of the pipe: stdout from spawn() to the end
\* of the block of the stdout loop, stderr to the end of the stderr loop
StdoutReader == spawnResult = "ok" /\ pc = "stdout"
StderrReader == spawnResult = "ok" /\ pc \in {"stdout", "stderr"}

\* The process enters a write of one line to stdout
ChildWriteOut(line) ==
    /\ spawnResult = "ok"
    /\ childPc = "run"
    /\ outOpen
    /\ Len(outWritten) < MaxLines
    /\ childPc' = "w_out"
    /\ childLine' = line
    /\ UNCHANGED <<coreVars, pipeOut, pipeErr, outOpen, errOpen, outWritten,
                   errWritten, outRead, stdoutEnd, exceptPipe>>

\* The write to stdout returns: the line is in the pipe once the pipe has
\* room for it. With the read end closed the write fails, and the process
\* goes on or is ended by the signal.
ChildWriteOutReturns ==
    /\ childPc = "w_out"
    /\ \/ /\ StdoutReader
          /\ Len(pipeOut) < PipeCapacity
          /\ pipeOut' = Append(pipeOut, childLine)
          /\ outWritten' = Append(outWritten, childLine)
          /\ childPc' = "run"
          /\ UNCHANGED <<outOpen, errOpen>>
       \/ /\ ~StdoutReader
          /\ \/ childPc' = "run" /\ outOpen' = FALSE /\ errOpen' = errOpen
             \/ childPc' = "exited" /\ outOpen' = FALSE /\ errOpen' = FALSE
          /\ UNCHANGED <<pipeOut, outWritten>>
    /\ childLine' = <<>>
    /\ UNCHANGED <<coreVars, pipeErr, errWritten, outRead, stdoutEnd,
                   exceptPipe>>

\* The process enters a write of one line to stderr
ChildWriteErr ==
    /\ spawnResult = "ok"
    /\ childPc = "run"
    /\ errOpen
    /\ errWritten < MaxErrLines
    /\ childPc' = "w_err"
    /\ UNCHANGED <<coreVars, childLine, pipeOut, pipeErr, outOpen, errOpen,
                   outWritten, errWritten, outRead, stdoutEnd, exceptPipe>>

\* The write to stderr returns
ChildWriteErrReturns ==
    /\ childPc = "w_err"
    /\ \/ /\ StderrReader
          /\ pipeErr < PipeCapacity
          /\ pipeErr' = pipeErr + 1
          /\ errWritten' = errWritten + 1
          /\ childPc' = "run"
          /\ UNCHANGED <<outOpen, errOpen>>
       \/ /\ ~StderrReader
          /\ \/ childPc' = "run" /\ errOpen' = FALSE /\ outOpen' = outOpen
             \/ childPc' = "exited" /\ outOpen' = FALSE /\ errOpen' = FALSE
          /\ UNCHANGED <<pipeErr, errWritten>>
    /\ UNCHANGED <<coreVars, childLine, pipeOut, outWritten, outRead,
                   stdoutEnd, exceptPipe>>

\* The process closes its stdout and goes on
ChildCloseOut ==
    /\ spawnResult = "ok"
    /\ childPc = "run"
    /\ outOpen
    /\ outOpen' = FALSE
    /\ UNCHANGED <<coreVars, childPc, childLine, pipeOut, pipeErr, errOpen,
                   outWritten, errWritten, outRead, stdoutEnd, exceptPipe>>

\* The process exits: both pipes are closed on its side
ChildExit ==
    /\ spawnResult = "ok"
    /\ childPc = "run"
    /\ childPc' = "exited"
    /\ outOpen' = FALSE
    /\ errOpen' = FALSE
    /\ UNCHANGED <<coreVars, childLine, pipeOut, pipeErr, outWritten,
                   errWritten, outRead, stdoutEnd, exceptPipe>>

\* One turn of the stdout loop: next_line() returns Ok(Some(line))
PipeReadLine ==
    /\ pc = "stdout"
    /\ pipeOut # <<>>
    /\ Head(pipeOut) # <<BadUtf8>>
    /\ LET a == ProcessChunk(proc, Head(pipeOut))
           b == ProcessChunk(a.proc, <<NL>>)
       IN /\ proc' = b.proc
          /\ PushAll(a.out \o b.out)
    /\ linesRead' = linesRead + 1
    /\ pipeOut' = Tail(pipeOut)
    /\ outRead' = Append(outRead, Head(pipeOut))
    /\ UNCHANGED <<state, pc, sessLock, spawnResult, waitResult, cancelled,
                   observed, response, storeOnlyVars, normVars, childPc,
                   childLine, pipeErr, outOpen, errOpen, outWritten,
                   errWritten, stdoutEnd, exceptPipe>>

\* next_line() returns Err: the while-let loop ends as it does at the end
\* of the stream, processor.flush(), and the reader is dropped with what
\* the pipe still holds
PipeReadErr ==
    /\ pc = "stdout"
    /\ pipeOut # <<>>
    /\ Head(pipeOut) = <<BadUtf8>>
    /\ LET f == Flush(proc)
       IN /\ proc' = f.proc
          /\ PushAll(f.out)
    /\ pc' = "stderr"
    /\ stdoutEnd' = "err"
    /\ UNCHANGED <<state, sessLock, spawnResult, waitResult, linesRead,
                   cancelled, observed, response, storeOnlyVars, normVars,
                   childVars, outRead, exceptPipe>>

\* next_line() returns Ok(None): the pipe is empty and the process has
\* closed its end; processor.flush()
PipeStdoutEof ==
    /\ pc = "stdout"
    /\ pipeOut = <<>>
    /\ ~outOpen
    /\ LET f == Flush(proc)
       IN /\ proc' = f.proc
          /\ PushAll(f.out)
    /\ pc' = "stderr"
    /\ stdoutEnd' = "eof"
    /\ UNCHANGED <<state, sessLock, spawnResult, waitResult, linesRead,
                   cancelled, observed, response, storeOnlyVars, normVars,
                   childVars, outRead, exceptPipe>>

\* One turn of the stderr loop: the line is logged
PipeReadStderr ==
    /\ pc = "stderr"
    /\ pipeErr > 0
    /\ pipeErr' = pipeErr - 1
    /\ UNCHANGED <<coreVars, childPc, childLine, pipeOut, outOpen, errOpen,
                   outWritten, errWritten, outRead, stdoutEnd, exceptPipe>>

\* The stderr loop ends: the pipe is empty and the process has closed it
PipeStderrEof ==
    /\ pc = "stderr"
    /\ pipeErr = 0
    /\ ~errOpen
    /\ pc' = "wait"
    /\ UNCHANGED <<state, sessLock, spawnResult, waitResult, linesRead, proc,
                   cancelled, observed, response, storeVars, storeOnlyVars,
                   normVars, pipeTuple, exceptPipe>>

\* child.wait() returns once the process has exited
PipeWait(w) ==
    /\ pc = "wait"
    /\ childPc = "exited"
    /\ waitResult' = w
    /\ pc' = "set_final"
    /\ UNCHANGED <<state, sessLock, spawnResult, linesRead, proc, cancelled,
                   observed, response, storeVars, storeOnlyVars, normVars,
                   pipeTuple, exceptPipe>>

\* ------------------------------------------------- locks of the bridge
\* Session B exists from the start; session A is the one create_feedback
\* makes
SessionIds == {"A", "B"}
Handlers == {"h1", "h2"}
Ops == {"create", "get", "cancel", "stream"}

\* the run_feedback_session task of a session, as a lock holder
RunnerOf(s) == "runner" \o s

\* tokio::sync::RwLock: one writer or any number of readers
NoLock == [w |-> "none", r |-> {}]
CanRead(l) == l.w = "none"
CanWrite(l) == l.w = "none" /\ l.r = {}
AcquireRead(l, t) == [l EXCEPT !.r = @ \cup {t}]
AcquireWrite(l, t) == [l EXCEPT !.w = t]
Release(l, t) == [w |-> IF l.w = t THEN "none" ELSE l.w, r |-> l.r \ {t}]
Holds(l, t) == l.w = t \/ t \in l.r

Idle == [op |-> "none", sess |-> "none", pc |-> "idle", saw |-> "none"]

\* A request arrives. create_feedback makes session A, once.
Begin(h, op, s) ==
    /\ handler[h].pc = "idle"
    /\ op = "create" =>
           /\ s = "A"
           /\ sessionState["A"] = "none"
           /\ \A g \in Handlers : handler[g].op # "create"
    /\ handler' = [handler EXCEPT ![h] =
                      [op |-> op, sess |-> s, pc |-> "reg", saw |-> "none"]]
    /\ UNCHANGED <<coreVars, sessions, sessionsLock, sessionLock,
                   historyLock, sessionState, runner, exceptLock>>

\* self.sessions.write().await of create_session, self.sessions.read().await
\* of get_session
LockSessions(h) ==
    /\ handler[h].pc = "reg"
    /\ IF handler[h].op = "create"
       THEN /\ CanWrite(sessionsLock)
            /\ sessionsLock' = AcquireWrite(sessionsLock, h)
       ELSE /\ CanRead(sessionsLock)
            /\ sessionsLock' = AcquireRead(sessionsLock, h)
    /\ handler' = [handler EXCEPT ![h].pc = "in_reg"]
    /\ UNCHANGED <<coreVars, sessions, sessionLock, historyLock,
                   sessionState, runner, exceptLock>>

\* create_session: insert under the guard, which the statement drops
CreateSession(h) ==
    /\ handler[h].pc = "in_reg"
    /\ handler[h].op = "create"
    /\ sessions' = sessions \cup {handler[h].sess}
    /\ sessionState' = [sessionState EXCEPT ![handler[h].sess] = "Pending"]
    /\ sessionsLock' = Release(sessionsLock, h)
    /\ handler' = [handler EXCEPT ![h].pc = "session"]
    /\ UNCHANGED <<coreVars, sessionLock, historyLock, runner, exceptLock>>

\* get_session that returns with the guard of the registry still held
GetSessionKeepsGuard(h) ==
    /\ handler[h].pc = "in_reg"
    /\ handler[h].op # "create"
    /\ handler' = [handler EXCEPT ![h].pc =
                      IF handler[h].sess \in sessions THEN "session"
                      ELSE "done"]
    /\ UNCHANGED <<coreVars, sessions, sessionsLock, sessionLock,
                   historyLock, sessionState, runner, exceptLock>>

\* get_session: get(id).cloned() under the guard, which the statement
\* drops; None is answered with NOT_FOUND
GetSession(h) ==
    /\ handler[h].pc = "in_reg"
    /\ handler[h].op # "create"
    /\ sessionsLock' = Release(sessionsLock, h)
    /\ handler' = [handler EXCEPT ![h].pc =
                      IF handler[h].sess \in sessions THEN "session"
                      ELSE "done"]
    /\ UNCHANGED <<coreVars, sessions, sessionLock, historyLock,
                   sessionState, runner, exceptLock>>

\* create_feedback: session.read().await.id.clone(), then tokio::spawn of
\* run_feedback_session
CreateSpawnRunner(h) ==
    /\ handler[h].pc = "session"
    /\ handler[h].op = "create"
    /\ CanRead(sessionLock[handler[h].sess])
    /\ runner' = [runner EXCEPT ![handler[h].sess] = "start"]
    /\ handler' = [handler EXCEPT ![h].pc = "done",
                                  ![h].saw = sessionState[handler[h].sess]]
    /\ UNCHANGED <<coreVars, sessions, sessionsLock, sessionLock,
                   historyLock, sessionState, exceptLock>>

\* get_feedback: let s = session.read().await
GetFeedbackLock(h) ==
    /\ handler[h].pc = "session"
    /\ handler[h].op = "get"
    /\ CanRead(sessionLock[handler[h].sess])
    /\ sessionLock' = [sessionLock EXCEPT ![handler[h].sess] =
                          AcquireRead(@, h)]
    /\ handler' = [handler EXCEPT ![h].pc = "history",
                                  ![h].saw = sessionState[handler[h].sess]]
    /\ UNCHANGED <<coreVars, sessions, sessionsLock, historyLock,
                   sessionState, runner, exceptLock>>

\* get_feedback: s.msg_store.get_history().await, under the read guard
GetFeedbackHistory(h) ==
    /\ handler[h].pc = "history"
    /\ handler[h].op = "get"
    /\ historyLock[handler[h].sess] = "none"
    /\ handler' = [handler EXCEPT ![h].pc = "respond"]
    /\ UNCHANGED <<coreVars, sessions, sessionsLock, sessionLock,
                   historyLock, sessionState, runner, exceptLock>>

\* get_feedback returns its response: the read guard is dropped
GetFeedbackRespond(h) ==
    /\ handler[h].pc = "respond"
    /\ sessionLock' = [sessionLock EXCEPT ![handler[h].sess] =
                          Release(@, h)]
    /\ handler' = [handler EXCEPT ![h].pc = "done"]
    /\ UNCHANGED <<coreVars, sessions, sessionsLock, historyLock,
                   sessionState, runner, exceptLock>>

\* cancel_feedback: let mut s = session.write().await
CancelLock(h) ==
    /\ handler[h].pc = "session"
    /\ handler[h].op = "cancel"
    /\ CanWrite(sessionLock[handler[h].sess])
    /\ sessionLock' = [sessionLock EXCEPT ![handler[h].sess] =
                          AcquireWrite(@, h)]
    /\ handler' = [handler EXCEPT ![h].pc = "in_session"]
    /\ UNCHANGED <<coreVars, sessions, sessionsLock, historyLock,
                   sessionState, runner, exceptLock>>

\* cancel_feedback: s.state = Cancelled, the block drops the guard, the
\* handler answers
CancelSet(h) ==
    /\ handler[h].pc = "in_session"
    /\ sessionState' = [sessionState EXCEPT ![handler[h].sess] =
                           CancelState(@)]
    /\ sessionLock' = [sessionLock EXCEPT ![handler[h].sess] =
                          Release(@, h)]
    /\ handler' = [handler EXCEPT ![h].pc = "done",
                                  ![h].saw =
                                      sessionState'[handler[h].sess]]
    /\ UNCHANGED <<coreVars, sessions, sessionsLock, historyLock, runner,
                   exceptLock>>

\* handle_feedback_socket: session.read().await.msg_store.clone() and
\* subscribe()
StreamSubscribe(h) ==
    /\ handler[h].pc = "session"
    /\ handler[h].op = "stream"
    /\ CanRead(sessionLock[handler[h].sess])
    /\ handler' = [handler EXCEPT ![h].pc = "history"]
    /\ UNCHANGED <<coreVars, sessions, sessionsLock, sessionLock,
                   historyLock, sessionState, runner, exceptLock>>

\* handle_feedback_socket: get_history(); the stream is then set up and
\* the handler forwards what the store sends
StreamGetHistory(h) ==
    /\ handler[h].pc = "history"
    /\ handler[h].op = "stream"
    /\ historyLock[handler[h].sess] = "none"
    /\ handler' = [handler EXCEPT ![h].pc = "done",
                                  ![h].saw = sessionState[handler[h].sess]]
    /\ UNCHANGED <<coreVars, sessions, sessionsLock, sessionLock,
                   historyLock, sessionState, runner, exceptLock>>

\* run_feedback_session: let mut s = session.write().await
RunLockStart(s) ==
    /\ runner[s] = "start"
    /\ CanWrite(sessionLock[s])
    /\ sessionLock' = [sessionLock EXCEPT ![s] = AcquireWrite(@, RunnerOf(s))]
    /\ runner' = [runner EXCEPT ![s] = "w_running"]
    /\ UNCHANGED <<coreVars, sessions, sessionsLock, historyLock,
                   sessionState, handler, exceptLock>>

\* s.state = Running with the guard kept for the rest of the function
RunSetRunningKeepsGuard(s) ==
    /\ runner[s] = "w_running"
    /\ sessionState' = [sessionState EXCEPT ![s] = StartState(@)]
    /\ runner' = [runner EXCEPT ![s] = "spawn"]
    /\ UNCHANGED <<coreVars, sessions, sessionsLock, sessionLock,
                   historyLock, handler, exceptLock>>

\* s.state = Running; the block ends and drops the guard
RunSetRunning(s) ==
    /\ runner[s] = "w_running"
    /\ sessionState' = [sessionState EXCEPT ![s] = StartState(@)]
    /\ sessionLock' = [sessionLock EXCEPT ![s] = Release(@, RunnerOf(s))]
    /\ runner' = [runner EXCEPT ![s] = "prep"]
    /\ UNCHANGED <<coreVars, sessions, sessionsLock, historyLock, handler,
                   exceptLock>>

\* session.read().await.executor.clone() and .msg_store.clone(): guards
\* that their statements drop
RunReadSession(s) ==
    /\ runner[s] = "prep"
    /\ CanRead(sessionLock[s])
    /\ runner' = [runner EXCEPT ![s] = "spawn"]
    /\ UNCHANGED <<coreVars, sessions, sessionsLock, sessionLock,
                   historyLock, sessionState, handler, exceptLock>>

\* cmd.spawn() returns
RunSpawn(s, ok) ==
    /\ runner[s] = "spawn"
    /\ runner' = [runner EXCEPT ![s] = IF ok THEN "read" ELSE "fail"]
    /\ UNCHANGED <<coreVars, sessions, sessionsLock, sessionLock,
                   historyLock, sessionState, handler, exceptLock>>

\* next_line() returns a line: process_chunk has a message to push
RunReadLine(s) ==
    /\ runner[s] = "read"
    /\ runner' = [runner EXCEPT ![s] = "push"]
    /\ UNCHANGED <<coreVars, sessions, sessionsLock, sessionLock,
                   historyLock, sessionState, handler, exceptLock>>

\* MsgStore::push: self.history.lock().await
RunPushLock(s) ==
    /\ runner[s] = "push"
    /\ historyLock[s] = "none"
    /\ historyLock' = [historyLock EXCEPT ![s] = RunnerOf(s)]
    /\ runner' = [runner EXCEPT ![s] = "pushing"]
    /\ UNCHANGED <<coreVars, sessions, sessionsLock, sessionLock,
                   sessionState, handler, exceptLock>>

\* push that, with the history guard held, waits for the session's write
\* lock
RunPushUnderSessionLock(s) ==
    /\ runner[s] = "pushing"
    /\ CanWrite(sessionLock[s])
    /\ historyLock' = [historyLock EXCEPT ![s] = "none"]
    /\ runner' = [runner EXCEPT ![s] = "read"]
    /\ UNCHANGED <<coreVars, sessions, sessionsLock, sessionLock,
                   sessionState, handler, exceptLock>>

\* MsgStore::push: the message is pushed and sent, the guard is dropped
RunPush(s) ==
    /\ runner[s] = "pushing"
    /\ historyLock' = [historyLock EXCEPT ![s] = "none"]
    /\ runner' = [runner EXCEPT ![s] = "read"]
    /\ UNCHANGED <<coreVars, sessions, sessionsLock, sessionLock,
                   sessionState, handler, exceptLock>>

\* the stdout loop ends (the pushes of flush() are pushes like the others)
RunStdoutEnd(s) ==
    /\ runner[s] = "read"
    /\ runner' = [runner EXCEPT ![s] = "stderr"]
    /\ UNCHANGED <<coreVars, sessions, sessionsLock, sessionLock,
                   historyLock, sessionState, handler, exceptLock>>

\* the stderr loop ends
RunStderrEnd(s) ==
    /\ runner[s] = "stderr"
    /\ runner' = [runner EXCEPT ![s] = "wait"]
    /\ UNCHANGED <<coreVars, sessions, sessionsLock, sessionLock,
                   historyLock, sessionState, handler, exceptLock>>

\* child.wait() returns
RunWait(s) ==
    /\ runner[s] = "wait"
    /\ runner' = [runner EXCEPT ![s] = "final"]
    /\ UNCHANGED <<coreVars, sessions, sessionsLock, sessionLock,
                   historyLock, sessionState, handler, exceptLock>>

\* let mut s = session.write().await of the Ok arm and of the Err arm
RunLockFinal(s) ==
    /\ runner[s] \in {"final", "fail"}
    /\ CanWrite(sessionLock[s])
    /\ sessionLock' = [sessionLock EXCEPT ![s] = AcquireWrite(@, RunnerOf(s))]
    /\ runner' = [runner EXCEPT ![s] =
                     IF runner[s] = "final" THEN "w_final" ELSE "w_failed"]
    /\ UNCHANGED <<coreVars, sessions, sessionsLock, historyLock,
                   sessionState, handler, exceptLock>>

\* Ok arm: s.state = Completed or Failed; the arm ends and drops the guard
RunSetFinal(s, w) ==
    /\ runner[s] = "w_final"
    /\ sessionState' = [sessionState EXCEPT ![s] = FinalState(w)]
    /\ sessionLock' = [sessionLock EXCEPT ![s] = Release(@, RunnerOf(s))]
    /\ runner' = [runner EXCEPT ![s] = "done"]
    /\ UNCHANGED <<coreVars, sessions, sessionsLock, historyLock, handler,
                   exceptLock>>

\* Err arm: s.state = Failed, then push_error waits for the history lock
\* with the session guard held
RunSetFailed(s) ==
    /\ runner[s] = "w_failed"
    /\ sessionState' = [sessionState EXCEPT ![s] = "Failed"]
    /\ runner' = [runner EXCEPT ![s] = "push_error"]
    /\ UNCHANGED <<coreVars, sessions, sessionsLock, sessionLock,
                   historyLock, handler, exceptLock>>

\* Err arm: push_error takes the history lock
RunPushErrorLock(s) ==
    /\ runner[s] = "push_error"
    /\ historyLock[s] = "none"
    /\ historyLock' = [historyLock EXCEPT ![s] = RunnerOf(s)]
    /\ runner' = [runner EXCEPT ![s] = "pushing_error"]
    /\ UNCHANGED <<coreVars, sessions, sessionsLock, sessionLock,
                   sessionState, handler, exceptLock>>

\* Err arm: the error is pushed; the arm ends and both guards are dropped
RunPushError(s) ==
    /\ runner[s] = "pushing_error"
    /\ historyLock' = [historyLock EXCEPT ![s] = "none"]
    /\ sessionLock' = [sessionLock EXCEPT ![s] = Release(@, RunnerOf(s))]
    /\ runner' = [runner EXCEPT ![s] = "done"]
    /\ UNCHANGED <<coreVars, sessions, sessionsLock, sessionState, handler,
                   exceptLock>>

\* Every step of a handler after the request arrived
HandlerStep(h) ==
    \/ LockSessions(h)
    \/ CreateSession(h)
    \/ GetSession(h)
    \/ CreateSpawnRunner(h)
    \/ GetFeedbackLock(h)
    \/ GetFeedbackHistory(h)
    \/ GetFeedbackRespond(h)
    \/ CancelLock(h)
    \/ CancelSet(h)
    \/ StreamSubscribe(h)
    \/ StreamGetHistory(h)

\* The steps of a runner that wait for a lock or for nothing
RunnerLockStep(s) ==
    \/ RunLockStart(s)
    \/ RunSetRunning(s)
    \/ RunReadSession(s)
    \/ RunPushLock(s)
    \/ RunPush(s)
    \/ RunLockFinal(s)
    \/ \E w \in {"exit0", "exit1", "err"} : RunSetFinal(s, w)
    \/ RunSetFailed(s)
    \/ RunPushErrorLock(s)
    \/ RunPushError(s)

\* The steps of a runner that wait for the process: spawn, a read of
\* stdout or stderr, wait
RunnerProcessStep(s) ==
    \/ \E ok \in BOOLEAN : RunSpawn(s, ok)
    \/ RunReadLine(s)
    \/ RunStdoutEnd(s)
    \/ RunStderrEnd(s)
    \/ RunWait(s)

\* ------------------------------------------------- the agent invocation
\* CLAUDE_CODE_VERSION
ClaudeCodeVersion == "2.1.7"

\* cmd.arg of a literal, and of a format!("{flag}{value}")
Arg(flag) == [flag |-> flag, value |-> <<>>]
ArgOf(flag, value) == [flag |-> flag, value |-> value]

\* AppendPrompt::apply
AppendPromptApply(ap, prompt) ==
    (IF ap.prepend.none THEN <<>> ELSE <<ap.prepend.v, "\n">>)
    \o prompt
    \o (IF ap.append.none THEN <<>> ELSE <<"\n", ap.append.v>>)

\* a build_command that leaves the resume flag out
BuildCommandWithoutResume(self, prompt, session_id) ==
    <<Arg("-y"),
      ArgOf("@anthropic-ai/claude-code@", <<ClaudeCodeVersion>>),
      Arg("--output-format=stream-json"),
      Arg("--verbose"),
      Arg("--include-partial-messages"),
      Arg("--permission-mode=bypassPermissions")>>
    \o (IF self.model.none THEN <<>>
        ELSE <<ArgOf("--model=", <<self.model.v>>)>>)
    \o (IF self.system_prompt.none THEN <<>>
        ELSE <<ArgOf("--system-prompt=", <<self.system_prompt.v>>)>>)
    \o <<Arg("-p"), ArgOf("", prompt)>>

\* ClaudeCode::build_command
BuildCommand(self, prompt, session_id) ==
    <<Arg("-y"),
      ArgOf("@anthropic-ai/claude-code@", <<ClaudeCodeVersion>>),
      Arg("--output-format=stream-json"),
      Arg("--verbose"),
      Arg("--include-partial-messages"),
      Arg("--permission-mode=bypassPermissions")>>
    \o (IF self.model.none THEN <<>>
        ELSE <<ArgOf("--model=", <<self.model.v>>)>>)
    \o (IF session_id.none THEN <<>>
        ELSE <<ArgOf("--resume=", <<session_id.v>>)>>)
    \o (IF self.system_prompt.none THEN <<>>
        ELSE <<ArgOf("--system-prompt=", <<self.system_prompt.v>>)>>)
    \o <<Arg("-p"), ArgOf("", prompt)>>

\* ClaudeCode::document_feedback_system_prompt
DocumentFeedbackSystemPrompt == "document feedback assistant"

\* ClaudeCode::default
ClaudeCodeDefault ==
    [append_prompt |-> [prepend |-> NoText, append |-> NoText],
     model |-> NoText, system_prompt |-> NoText]

\* the executor create_feedback stores in the session, whatever the
\* request's executor name is
CreateFeedbackExecutor ==
    [ClaudeCodeDefault EXCEPT
        !.system_prompt = Some(DocumentFeedbackSystemPrompt)]

\* build_feedback_prompt
BuildFeedbackPrompt(request) ==
    <<"DOCUMENT CONTEXT:", "Title: ",
      IF request.document_title.none THEN "Untitled"
      ELSE request.document_title.v,
      "USER INSTRUCTION:", request.instruction>>

\* the command run_feedback_session builds in place of the executor's
FeedbackCommand(prompt) ==
    <<Arg("-y"),
      Arg("@anthropic-ai/claude-code@2.1.7"),
      Arg("--output-format=stream-json"),
      Arg("--verbose"),
      Arg("--include-partial-messages"),
      Arg("--permission-mode=bypassPermissions"),
      Arg("-p"), ArgOf("", prompt)>>

\* the configurations, prompts and session references of SpecCmd
CmdModels == {NoText, Some("sonnet"), Some("opus")}
CmdSystemPrompts ==
    {NoText, Some("custom"), Some(DocumentFeedbackSystemPrompt)}
CmdAppendPrompts ==
    {[prepend |-> NoText, append |-> NoText],
     [prepend |-> Some("pre"), append |-> Some("post")]}
CmdConfigs ==
    [append_prompt : CmdAppendPrompts, model : CmdModels,
     system_prompt : CmdSystemPrompts]
CmdPrompts == {<<"p1">>, <<"p2">>}
CmdSessionRefs == {"r1", "r2"}
CmdRequests ==
    [document_title : {NoText, Some("T")}, instruction : {"i1", "i2"},
     session_id : {NoText} \cup {Some(r) : r \in CmdSessionRefs}]

\* ClaudeCode::spawn, up to the command it spawns
ExecSpawn(self, prompt) ==
    /\ cmdArgs' = BuildCommand(self, AppendPromptApply(self.append_prompt,
                                                       prompt), NoText)
    /\ cmdCall' = [via |-> "spawn", config |-> self, prompt |-> prompt,
                   session_id |-> NoText]
    /\ UNCHANGED <<coreVars, exceptCmd>>

\* ClaudeCode::spawn_follow_up, up to the command it spawns
ExecSpawnFollowUp(self, prompt, session_id) ==
    /\ cmdArgs' = BuildCommand(self, AppendPromptApply(self.append_prompt,
                                                       prompt),
                               Some(session_id))
    /\ cmdCall' = [via |-> "spawn_follow_up", config |-> self,
                   prompt |-> prompt, session_id |-> Some(session_id)]
    /\ UNCHANGED <<coreVars, exceptCmd>>

\* create_feedback and run_feedback_session, up to the command the runner
\* spawns: the session's executor is read and not used
RunFeedbackCommand(request) ==
    /\ cmdArgs' = FeedbackCommand(BuildFeedbackPrompt(request))
    /\ cmdCall' = [via |-> "feedback", config |-> CreateFeedbackExecutor,
                   prompt |-> BuildFeedbackPrompt(request),
                   session_id |-> request.session_id]
    /\ UNCHANGED <<coreVars, exceptCmd>>

\* ------------------------------------------------------------ specifications
\* A session right after create_feedback returned: registered, Pending, its
\* runner task spawned; a new MsgStore
InitSession ==
    /\ state = "Pending"
    /\ pc = "start"
    /\ sessLock = "free"
    /\ spawnResult = "none"
    /\ waitResult = "none"
    /\ linesRead = 0
    /\ proc = NewProcessor
    /\ cancelled = FALSE
    /\ observed = {}
    /\ response = [status |-> "Processing", content |-> NoText]
    /\ history = <<>>
    /\ chan = <<>>
    /\ rx = [s \in Subscribers |-> [on |-> FALSE, next |-> 0]]
    /\ got = [s \in Subscribers |-> <<>>]
    /\ lagged = [s \in Subscribers |-> FALSE]
    /\ prod = [p \in Producers |-> [pc |-> "idle", msg |-> Started]]
    /\ pushed = <<>>
    /\ cleared = FALSE
    /\ clearedSince = FALSE
    /\ snaps = <<>>
    /\ sendLog = <<>>
    /\ subAt = [s \in Subscribers |-> 0]
    /\ nphase = "feed"
    /\ nlines = <<>>
    /\ nlast = NoCall
    /\ nemit = <<>>
    /\ accSrc = [content |-> NoSrc, thinking |-> NoSrc]
    /\ envVars = NewEnv
    /\ envLast = NoEnvCall
    /\ sockPc = "idle"
    /\ sockReplay = <<>>
    /\ sockSent = <<>>
    /\ childPc = "run"
    /\ childLine = <<>>
    /\ pipeOut = <<>>
    /\ pipeErr = 0
    /\ outOpen = TRUE
    /\ errOpen = TRUE
    /\ outWritten = <<>>
    /\ outRead = <<>>
    /\ errWritten = 0
    /\ stdoutEnd = "open"
    /\ sessions = {"B"}
    /\ sessionsLock = NoLock
    /\ sessionLock = [s \in SessionIds |-> NoLock]
    /\ historyLock = [s \in SessionIds |-> "none"]
    /\ sessionState = [s \in SessionIds |->
                          IF s = "B" THEN "Pending" ELSE "none"]
    /\ runner = [s \in SessionIds |-> IF s = "B" THEN "start" ELSE "none"]
    /\ handler = [h \in Handlers |-> Idle]
    /\ cmdCall = [via |-> "none"]
    /\ cmdArgs = <<>>

Init ==
    /\ InitSession
    /\ stream = <<>>
    /\ nblocks = <<>>

Next ==
    \/ RunnerSetRunning
    \/ RunnerSpawnOk
    \/ RunnerSpawnErr
    \/ RunnerFailSpawn
    \/ RunnerPushSpawnError
    \/ \E line \in StdoutLines : RunnerReadLine(line)
    \/ RunnerStdoutEnd
    \/ RunnerDrainStderr
    \/ \E w \in {"exit0", "exit1", "err"} : RunnerWait(w)
    \/ RunnerSetFinal
    \/ CancelFeedback
    \/ GetFeedback

Spec == Init /\ [][Next]_vars

\* The store as its pushers and subscribers use it. get_history only reads,
\* so it is left to SpecHistory.
NextStore ==
    \/ \E p \in Producers, m \in StoreMsgs : PushAppend(p, m)
    \/ \E p \in Producers : PushSend(p)
    \/ \E s \in Subscribers : Subscribe(s)
    \/ \E s \in Subscribers : Recv(s)
    \/ Clear

SpecStore == Init /\ [][NextStore]_vars

\* The store as its history readers see it. recv() touches no history, so it
\* is left to SpecStore.
NextHistory ==
    \/ \E p \in Producers, m \in StoreMsgs : PushAppend(p, m)
    \/ \E p \in Producers : PushSend(p)
    \/ \E s \in Subscribers : Subscribe(s)
    \/ GetHistoryEarlier
    \/ GetHistoryLater
    \/ Clear

SpecHistory == Init /\ [][NextHistory]_vars

\* A new processor fed whole lines, then at most one line without newline,
\* then flushed
NextNorm ==
    \/ \E line \in NormLines : NormLine(line)
    \/ \E line \in NormPartials : NormPartial(line)
    \/ NormFlush

SpecNorm == Init /\ [][NextNorm]_vars

\* A new processor fed stream events, Assistant and Error records
NextEvents ==
    \/ \E line \in EventLines : NormLine(line)
    \/ NormFlush

SpecEvents == Init /\ [][NextEvents]_vars

\* A new processor and a stream that is cut into chunks in every way
InitChunks ==
    /\ InitSession
    /\ stream \in Streams
    /\ nblocks = <<>>

NextChunks ==
    \/ \E k \in 1..MaxStream : ChunkFeed(k)
    \/ ChunkFlush

SpecChunks == InitChunks /\ [][NextChunks]_vars

\* A new processor and one Assistant record, with or without a text delta
\* before it
InitBlocks ==
    /\ InitSession
    /\ stream = <<>>
    /\ nblocks \in BlockSeqs

NextBlocks ==
    \/ BlocksStreamFirst
    \/ BlocksDeliver

SpecBlocks == InitBlocks /\ [][NextBlocks]_vars

\* An environment that is built by insert, merge and with_overrides
NextEnv ==
    \/ \E key \in EnvKeys, value \in EnvValues : EnvInsert(key, value)
    \/ \E other \in EnvMaps : EnvMerge(other)
    \/ \E overrides \in EnvMaps : EnvWithOverrides(overrides)

SpecEnv == Init /\ [][NextEnv]_vars

\* One session and one websocket client that connects at any time
NextSocket ==
    \/ RunnerSetRunning
    \/ RunnerSpawnOk
    \/ RunnerSpawnErr
    \/ RunnerFailSpawn
    \/ RunnerPushSpawnError
    \/ \E line \in StdoutLines : RunnerReadLine(line)
    \/ RunnerStdoutEnd
    \/ RunnerDrainStderr
    \/ \E w \in {"exit0", "exit1", "err"} : RunnerWait(w)
    \/ RunnerSetFinal
    \/ SocketSubscribe
    \/ SocketGetHistory
    \/ SocketReplay
    \/ SocketReplayDone
    \/ SocketRecv
    \/ SocketClosed

SpecSocket == Init /\ [][NextSocket]_vars

\* One session, its runner and the agent process at the two pipes. A task
\* or a process that can take a step takes one.
NextPipes ==
    \/ RunnerSetRunning
    \/ RunnerSpawnOk
    \/ RunnerSpawnErr
    \/ RunnerFailSpawn
    \/ RunnerPushSpawnError
    \/ \E line \in PipeLines : ChildWriteOut(line)
    \/ ChildWriteOutReturns
    \/ ChildWriteErr
    \/ ChildWriteErrReturns
    \/ ChildCloseOut
    \/ ChildExit
    \/ PipeReadLine
    \/ PipeReadErr
    \/ PipeStdoutEof
    \/ PipeReadStderr
    \/ PipeStderrEof
    \/ \E w \in {"exit0", "exit1", "err"} : PipeWait(w)
    \/ RunnerSetFinal

SpecPipes == Init /\ [][NextPipes]_vars /\ WF_vars(NextPipes)

\* Two sessions, their runners and two request handlers on the locks of
\* the registry, the sessions and the stores. The locks of tokio are fair,
\* and the scheduler runs every task that can run: a step that waits for a
\* lock or for nothing is taken if it is possible again and again. Nothing
\* is assumed about the agent processes: a runner may wait for its process
\* forever.
NextLocks ==
    \/ \E h \in Handlers, op \in Ops, s \in SessionIds : Begin(h, op, s)
    \/ \E h \in Handlers : HandlerStep(h)
    \/ \E s \in SessionIds : RunnerLockStep(s)
    \/ \E s \in SessionIds : RunnerProcessStep(s)

SpecLocks ==
    /\ Init
    /\ [][NextLocks]_vars
    /\ \A h \in Handlers : SF_vars(HandlerStep(h))
    /\ \A s \in SessionIds : SF_vars(RunnerLockStep(s))

\* The agent invocation as the executor and the feedback runner build it
NextCmd ==
    \/ \E self \in CmdConfigs, prompt \in CmdPrompts : ExecSpawn(self, prompt)
    \/ \E self \in CmdConfigs, prompt \in CmdPrompts,
          session_id \in CmdSessionRefs :
           ExecSpawnFollowUp(self, prompt, session_id)
    \/ \E request \in CmdRequests : RunFeedbackCommand(request)

SpecCmd == Init /\ [][NextCmd]_vars

\* what the pushers of SpecStream push
StreamPushMsgs == {Entry("AssistantMessage", "a"), Ended}

\* the steps of the websocket handler once the client is connected
SocketStep ==
    \/ SocketGetHistory
    \/ SocketReplay
    \/ SocketReplayDone
    \/ SocketRecv

\* One store, its pushers and one websocket client that connects at any
\* time and never closes. The handler's task and a pusher between its
\* history.push and its sender.send are scheduled again by the runtime.
NextStream ==
    \/ \E p \in Producers, m \in StreamPushMsgs : PushAppend(p, m)
    \/ \E p \in Producers : PushSend(p)
    \/ SocketSubscribe
    \/ SocketStep

SpecStream ==
    /\ Init
    /\ [][NextStream]_vars
    /\ WF_vars(SocketStep)
    /\ \A p \in Producers : WF_vars(PushSend(p))

\* ------------------------------------------------------------------ claims
IsPrefix(a, b) == Len(a) <= Len(b) /\ SubSeq(b, 1, Len(a)) = a

\* An Error LogMsg or an ErrorMessage entry
IsErrorMsg(m) ==
    \/ m.kind = "Error"
    \/ m.kind = "Entry" /\ m.entry_type = "ErrorMessage"

HasErrorMsg(h) == \E i \in 1..Len(h) : IsErrorMsg(h[i])

\* C1: once the state is Cancelled, no later step changes it.
C1_CancelledIsTerminal ==
    [][state = "Cancelled" => state' = "Cancelled"]_vars

\* C2: a cancel request on a session that is Completed or Failed leaves the
\* state as it is.
C2_CancelKeepsCompletedAndFailed ==
    [][(CancelFeedback /\ state \in {"Completed", "Failed"})
         => state' = state]_vars

\* C3: the state is Running only after a successful spawn, and get status
\* never returned Processing for a session whose spawn failed.
C3_RunningOnlyAfterSpawn ==
    /\ state = "Running" => spawnResult = "ok"
    /\ spawnResult = "err" => "Processing" \notin observed

\* C4: a session that is never cancelled and whose spawn succeeded is Running
\* until the runner's last write, and then Completed exactly when wait()
\* returned a success status, Failed when it returned a non-zero status or
\* an error.
C4_FinalStateFollowsExit ==
    (spawnResult = "ok" /\ ~cancelled)
        => /\ pc # "done" => state = "Running"
           /\ pc = "done" =>
                /\ state = "Completed" <=> waitResult = "exit0"
                /\ state = "Failed" <=> waitResult \in {"exit1", "err"}
                /\ state \in {"Completed", "Failed"}

C4_Witness ==
    /\ pc = "done" /\ spawnResult = "ok" /\ ~cancelled
    /\ waitResult = "err" /\ state = "Failed"

\* C5 as stated: once the state is Completed or Failed the history does not
\* grow.
C5_NoGrowthAfterTerminalState ==
    [][(state \in {"Completed", "Failed"}) => (history' = history)]_vars

\* C5 amended: whenever the state can be read as Completed or Failed (the
\* runner does not hold the session's write lock) the runner has finished,
\* and a finished runner never appends to the history again.
C5_NoWriterWhenReadableAsTerminal ==
    /\ []((state \in {"Completed", "Failed"} /\ sessLock = "free")
            => pc = "done")
    /\ [][pc = "done" => (pc' = "done" /\ history' = history)]_vars

C5_Witness ==
    /\ state = "Failed" /\ sessLock = "free" /\ spawnResult = "err"
    /\ history = <<Error(SpawnErrText)>>

\* C6: a session whose runner has finished in Failed has an error message in
\* its history.
C6_FailedHasErrorMessage ==
    (pc = "done" /\ state = "Failed") => HasErrorMsg(history)

\* C7: after a spawn failure the history is exactly the one Error carrying
\* the spawn error text, and the final state is Failed.
C7_SpawnFailureLeavesOneErrorAndFailed ==
    (pc = "done" /\ spawnResult = "err")
        => /\ history = <<Error(SpawnErrText)>>
           /\ state = "Failed"

\* C8: a get_history call made when no clear() has run returns exactly the
\* messages pushed so far, in push order, with or without subscribers.
C8_HistoryIsWhatWasPushed ==
    \A i \in 1..Len(snaps) :
        ~snaps[i].cleared => snaps[i].hist = snaps[i].pushed

C8_Witness ==
    /\ ~HasReceiver(rx)
    /\ \E i \in 1..Len(snaps) :
          ~snaps[i].cleared /\ snaps[i].hist = <<Started, Ended, Started>>

\* The messages handed to send since s subscribed
SentSince(s) == SubSeq(sendLog, subAt[s] + 1, Len(sendLog))

\* C9: a receiver that never lagged has been delivered, once each and in
\* order, the messages broadcast since it subscribed and none broadcast
\* before; with nothing pending it has been delivered all of them.
C9_ReceiverGetsWhatFollowsSubscribe ==
    \A s \in Subscribers :
        (rx[s].on /\ ~lagged[s])
            => /\ IsPrefix(got[s], SentSince(s))
               /\ rx[s].next = Len(chan) => got[s] = SentSince(s)

C9_Witness ==
    \E s \in Subscribers :
        /\ rx[s].on /\ ~lagged[s]
        /\ subAt[s] = 1
        /\ got[s] = <<Ended, Started>>

\* C10 as stated: of two get_history calls the earlier snapshot is a prefix
\* of the later one.
C10_SnapshotsArePrefixes ==
    Len(snaps) = 2 => IsPrefix(snaps[1].hist, snaps[2].hist)

\* C10 amended: of two get_history calls with no clear() between them the
\* earlier snapshot is a prefix of the later one.
C10_SnapshotsArePrefixesWithoutClear ==
    (Len(snaps) = 2 /\ ~snaps[2].clearedSince)
        => IsPrefix(snaps[1].hist, snaps[2].hist)

C10_Witness ==
    /\ Len(snaps) = 2 /\ ~snaps[2].clearedSince
    /\ snaps[1].hist = <<Started>>
    /\ snaps[2].hist = <<Started, Ended>>

\* How many times m occurs in the sequence h
RECURSIVE Count(_, _)
Count(m, h) ==
    IF h = <<>> THEN 0
    ELSE (IF Head(h) = m THEN 1 ELSE 0) + Count(m, Tail(h))

\* C11: a push is never held up and never fails because of the subscribers:
\* with no receiver, or with a receiver that has fallen behind, the append
\* and the broadcast step of a push can always be taken and every push has
\* appended exactly one message to the history; while no clear() has run,
\* everything broadcast since a lagging subscriber subscribed is in the
\* history, which holds the pushed messages in push order.
C11_PushIgnoresSubscribers ==
    /\ \A p \in Producers :
          /\ (prod[p].pc = "idle" /\ Len(pushed) < MaxPush)
                => \A m \in StoreMsgs : ENABLED PushAppend(p, m)
          /\ prod[p].pc = "send" => ENABLED PushSend(p)
    /\ ~cleared => history = pushed
    /\ \A s \in Subscribers :
          (lagged[s] /\ ~cleared)
              => \A m \in StoreMsgs :
                    Count(m, SentSince(s)) <= Count(m, history)

C11_Witness ==
    \E s \in Subscribers :
        /\ lagged[s] /\ ~cleared
        /\ got[s] = <<>>
        /\ Len(SentSince(s)) = MaxPush
        /\ history = pushed /\ Len(history) = MaxPush

\* All but the last element
Front(s) == SubSeq(s, 1, Len(s) - 1)

\* The messages of h that are not Raw
NonRaw(h) == SelectSeq(h, LAMBDA m : m.kind # "Raw")

\* The lines handled one after the other, blank lines left out: the
\* processor after them and everything pushed
RECURSIVE RefLines(_, _)
RefLines(p, lines) ==
    IF lines = <<>> THEN Step(p, <<>>)
    ELSE LET t == Trim(Head(lines))
             one == IF t = <<>> THEN Step(p, <<>>) ELSE ProcessLine(p, t)
             rest == RefLines(one.proc, Tail(lines))
         IN Step(rest.proc, one.out \o rest.out)

\* The accumulators and the streamed flag of p and q are the same
SamePending(p, q) ==
    /\ p.current_content = q.current_content
    /\ p.current_thinking = q.current_thinking
    /\ p.has_streamed_content = q.has_streamed_content

IsEvent(l, ev) ==
    /\ Decodes(l)
    /\ MsgOf(l).type = "stream_event"
    /\ MsgOf(l).event = ev

IsResult(l) == Decodes(l) /\ MsgOf(l).type = "result"

\* The texts of the ev deltas among lines that no block-stop or Result line
\* follows, joined in line order
RECURSIVE Pending(_, _)
Pending(lines, ev) ==
    IF lines = <<>> THEN ""
    ELSE LET l == lines[Len(lines)]
         IN IF IsEvent(l, "content_block_stop") \/ IsResult(l) THEN ""
            ELSE IF IsEvent(l, ev)
            THEN Pending(Front(lines), ev) \o MsgOf(l).text
            ELSE Pending(Front(lines), ev)

\* C13: a text-delta line appends nothing, and a block-stop line that
\* follows text-delta lines appends exactly one AssistantMessage entry, whose
\* content is the texts of those deltas joined in arrival order.
C13_TextDeltasCoalesceAtBlockStop ==
    /\ (nlast.op = "line" /\ IsEvent(nlast.line, "text_delta"))
          => nlast.out = <<>>
    /\ (nlast.op = "line" /\ IsEvent(nlast.line, "content_block_stop")
          /\ Pending(Front(nlines), "text_delta") # "")
          => AssistantContents(nlast.out)
                = <<Pending(Front(nlines), "text_delta")>>

C13_Witness ==
    /\ nlines = << <<Json(TextDelta("Hel"))>>, <<Json(TextDelta("lo"))>>,
                   <<Json(BlockStop)>> >>
    /\ nlast.line = <<Json(BlockStop)>>
    /\ nlast.out = <<Entry("AssistantMessage", "Hello")>>
    /\ history = nlast.out

\* Whether a text or thinking delta is among lines after the last
\* message_start, the event that opens a turn
RECURSIVE StreamedInTurn(_)
StreamedInTurn(lines) ==
    IF lines = <<>> THEN FALSE
    ELSE LET l == lines[Len(lines)]
         IN IF IsEvent(l, "message_start") THEN FALSE
            ELSE IF IsEvent(l, "text_delta") \/ IsEvent(l, "thinking_delta")
            THEN TRUE
            ELSE StreamedInTurn(Front(lines))

IsAssistant(l) == Decodes(l) /\ MsgOf(l).type = "assistant"

\* The AssistantMessage and ThinkingMessage entries of out
TextEntries(out) ==
    SelectSeq(out, LAMBDA m :
        /\ m.kind = "Entry"
        /\ m.entry_type \in {"AssistantMessage", "ThinkingMessage"})

\* One entry for each text and thinking block of blocks, in block order
RECURSIVE BlockEntries(_)
BlockEntries(blocks) ==
    IF blocks = <<>> THEN <<>>
    ELSE LET b == Head(blocks)
         IN (IF b.type = "text" THEN <<Entry("AssistantMessage", b.text)>>
             ELSE IF b.type = "thinking"
             THEN <<Entry("ThinkingMessage", b.thinking)>>
             ELSE <<>>)
            \o BlockEntries(Tail(blocks))

\* C14: an Assistant record of a turn for which text or thinking deltas were
\* streamed appends no AssistantMessage and no ThinkingMessage entry.
C14_NoDuplicateAfterStreaming ==
    (nlast.op = "line" /\ IsAssistant(nlast.line)
        /\ StreamedInTurn(Front(nlines)))
        => TextEntries(nlast.out) = <<>>

C14_Witness ==
    /\ nlines = << <<Json(TextDelta("Hel"))>>, <<Json(BlockStop)>>,
                   <<Json(AssistantMsg(<<ThinkingBlock("T"),
                                         TextBlock("Hi")>>))>> >>
    /\ nlast.op = "line" /\ IsAssistant(nlast.line)
    /\ history = <<Entry("AssistantMessage", "Hel")>>

\* C15: an Assistant record of a turn for which no delta was streamed
\* appends one entry for each of its text and thinking blocks, also when an
\* earlier turn of the session streamed deltas.
C15_FallbackInEveryUnstreamedTurn ==
    (nlast.op = "line" /\ IsAssistant(nlast.line)
        /\ ~StreamedInTurn(Front(nlines)))
        => TextEntries(nlast.out) = BlockEntries(MsgOf(nlast.line).content)

\* The entries a flush point appends for the pending thinking and text of
\* lines: thinking first, then text, each only when there is some
PendingEntries(lines) ==
    (IF Pending(lines, "thinking_delta") # ""
     THEN <<Entry("ThinkingMessage", Pending(lines, "thinking_delta"))>>
     ELSE <<>>)
    \o (IF Pending(lines, "text_delta") # ""
        THEN <<Entry("AssistantMessage", Pending(lines, "text_delta"))>>
        ELSE <<>>)

\* C16: a Result record, whatever its error flag, first appends the pending
\* thinking and text and then exactly one Ended, which is the last message
\* appended for the record; the accumulators are empty afterwards.
C16_ResultFlushesThenEnds ==
    (nlast.op = "line" /\ IsResult(nlast.line))
        => /\ nlast.out = PendingEntries(Front(nlines)) \o <<Ended>>
           /\ history[Len(history)] = Ended
           /\ proc.current_content = "" /\ proc.current_thinking = ""

C16_Witness ==
    /\ nlines = << <<Json(ThinkingDelta("Hm"))>>, <<Json(TextDelta("Hel"))>>,
                   <<Json(ResultMsg(TRUE))>> >>
    /\ nlast.line = <<Json(ResultMsg(TRUE))>>
    /\ history = <<Entry("ThinkingMessage", "Hm"),
                   Entry("AssistantMessage", "Hel"), Ended>>

\* C17: a second flush() with no input since the first appends nothing, and
\* after a flush() the buffer and both accumulators are empty.
C17_SecondFlushAppendsNothing ==
    /\ nphase = "flushed2" => nlast.out = <<>>
    /\ nphase \in {"flushed", "flushed2"}
          => /\ proc.buffer = <<>>
             /\ proc.current_content = "" /\ proc.current_thinking = ""

C17_Witness ==
    /\ nphase = "flushed2"
    /\ nlines = << <<Json(ThinkingDelta("Hm"))>>, <<Json(TextDelta("Hel"))>>,
                   <<Json(TextDelta("lo"))>> >>
    /\ nlast.before.buffer = <<>>
    /\ history = <<Entry("ThinkingMessage", "Hm"),
                   Entry("AssistantMessage", "Hello")>>

IsSuggestEdit(b) == b.type = "tool_use" /\ b.name = "suggest_edit"

\* The original, suggested and explanation texts of the SuggestedEdit
\* entries of out, read back from the serialized edit
RECURSIVE EditsOf(_)
EditsOf(out) ==
    IF out = <<>> THEN <<>>
    ELSE LET e == Head(out)
         IN (IF e.kind = "Entry" /\ e.entry_type = "SuggestedEdit"
             THEN << [original |-> e.content.originalText,
                      suggested |-> e.content.suggestedText,
                      explanation |-> e.content.explanation] >>
             ELSE <<>>)
            \o EditsOf(Tail(out))

\* The texts of the suggest_edit blocks that have both an original and a
\* suggested text, in block order
RECURSIVE WantedEdits(_)
WantedEdits(blocks) ==
    IF blocks = <<>> THEN <<>>
    ELSE LET b == Head(blocks)
         IN (IF /\ IsSuggestEdit(b)
                /\ b.input.original_text # NoText
                /\ b.input.suggested_text # NoText
             THEN << [original |-> b.input.original_text.v,
                      suggested |-> b.input.suggested_text.v,
                      explanation |-> IF b.input.explanation = NoText
                                      THEN "" ELSE b.input.explanation.v] >>
             ELSE <<>>)
            \o WantedEdits(Tail(blocks))

\* The entries of the blocks other than suggest_edit blocks, in block
\* order; text and thinking blocks count only when nothing was streamed
RECURSIVE OtherEntries(_, _)
OtherEntries(blocks, streamed) ==
    IF blocks = <<>> THEN <<>>
    ELSE LET b == Head(blocks)
         IN (IF b.type = "tool_use"
             THEN IF b.name = "suggest_edit" THEN <<>>
                  ELSE <<EntryMeta("ToolCall", b.name, b.input)>>
             ELSE IF streamed THEN <<>> ELSE BlockEntries(<<b>>))
            \o OtherEntries(Tail(blocks), streamed)

\* C18: an Assistant record appends one SuggestedEdit entry for each
\* suggest_edit block that has an original and a suggested text, carrying
\* the block's original, suggested and explanation texts; a suggest_edit
\* block that lacks one of the two appends nothing, and the blocks around it
\* are handled as usual.
C18_SuggestEditBlocks ==
    (nlast.op = "line" /\ IsAssistant(nlast.line))
        => LET blocks == MsgOf(nlast.line).content
           IN /\ EditsOf(nlast.out) = WantedEdits(blocks)
              /\ SelectSeq(nlast.out,
                           LAMBDA m : m.entry_type # "SuggestedEdit")
                    = OtherEntries(blocks, Front(nlines) # <<>>)

C18_Witness ==
    /\ nlast.op = "line" /\ IsAssistant(nlast.line)
    /\ MsgOf(nlast.line).content
          = << ToolUseBlock("t4", "suggest_edit",
                            EditInput(Some("teh"), NoText, Some("typo"))),
               ToolUseBlock("t2", "suggest_edit",
                            EditInput(Some("teh"), Some("the"), NoText)) >>
    /\ Len(nlast.out) = 1
    /\ EditsOf(nlast.out)
          = << [original |-> "teh", suggested |-> "the", explanation |-> ""] >>

\* The chunks joined into one text
RECURSIVE Flatten(_)
Flatten(chunks) ==
    IF chunks = <<>> THEN <<>> ELSE Head(chunks) \o Flatten(Tail(chunks))

\* The newline-terminated lines of the text s, without their newlines
RECURSIVE CompleteLines(_)
CompleteLines(s) ==
    LET pos == FindNL(s, 1)
    IN IF pos = 0 THEN <<>>
       ELSE <<SubSeq(s, 1, pos - 1)>>
            \o CompleteLines(SubSeq(s, pos + 1, Len(s)))

\* What follows the last newline of the text s
RECURSIVE AfterLastNL(_)
AfterLastNL(s) ==
    LET pos == FindNL(s, 1)
    IN IF pos = 0 THEN s ELSE AfterLastNL(SubSeq(s, pos + 1, Len(s)))

\* The entries for the text the accumulators of p hold, thinking first
HeldEntries(p) ==
    (IF p.current_thinking # ""
     THEN <<Entry("ThinkingMessage", p.current_thinking)>> ELSE <<>>)
    \o (IF p.current_content # ""
        THEN <<Entry("AssistantMessage", p.current_content)>> ELSE <<>>)

\* C19: however the stream is cut into chunks, the history is the one
\* obtained by handling its newline-terminated lines one by one: before
\* flush() nothing of the text after the last newline has been decoded (it
\* is all in the buffer), and flush() decodes that text once, as it is, and
\* then appends the text the accumulators hold.
C19_OutputIndependentOfChunking ==
    LET fed == Flatten(nlines)
        ref == RefLines(NewProcessor, CompleteLines(fed))
        rest == AfterLastNL(fed)
        last == IF rest = <<>> THEN Step(ref.proc, <<>>)
                ELSE ProcessLine(ref.proc, rest)
    IN /\ nphase = "feed"
             => /\ history = ref.out
                /\ proc = [ref.proc EXCEPT !.buffer = rest]
       /\ nphase = "flushed"
             => /\ history = ref.out \o last.out \o HeldEntries(last.proc)
                /\ proc.buffer = <<>>

C19_Witness ==
    /\ nphase = "flushed"
    /\ nlines = << <<JsonPart(ResultMsg(FALSE), 1)>>,
                   <<JsonPart(ResultMsg(FALSE), 2), NL,
                     Json(TextDelta("Hel"))>> >>
    /\ history = <<Ended, Entry("AssistantMessage", "Hel")>>

\* C20 as stated: content carried by an earlier line never appears in the
\* history after content carried by a later line.
C20_ContentInLineOrder ==
    /\ history = [i \in 1..Len(nemit) |-> nemit[i].msg]
    /\ \A i, j \in 1..Len(nemit) : i < j => nemit[i].hi <= nemit[j].lo

\* C20 amended: the history holds the pushed messages in the order of the
\* lines at which they were pushed; content of an earlier line appears after
\* content of a later line only when it is delta text, which is appended at
\* its flush point, thinking before text; content taken from the same place
\* (the lines themselves, the text accumulator, the thinking accumulator)
\* keeps its line order.
C20_EntriesInEmissionOrder ==
    /\ history = [i \in 1..Len(nemit) |-> nemit[i].msg]
    /\ \A i, j \in 1..Len(nemit) :
          i < j =>
            /\ nemit[i].at <= nemit[j].at
            /\ nemit[i].hi > nemit[j].lo
                  => nemit[j].src \in {"content", "thinking"}
            /\ nemit[i].src = nemit[j].src => nemit[i].hi <= nemit[j].lo
            /\ (nemit[i].at = nemit[j].at /\ nemit[j].src = "thinking")
                  => nemit[i].src = "line"

C20_Witness ==
    /\ nlines = << <<Json(TextDelta("Hel"))>>, <<Json(ThinkingDelta("Hm"))>>,
                   <<Json(BlockStop)>> >>
    /\ history = <<Entry("ThinkingMessage", "Hm"),
                   Entry("AssistantMessage", "Hel")>>
    /\ nemit[1].lo = 2 /\ nemit[2].hi = 1

\* C27: once an Ended is in the history nothing more is appended to it.
C27_NothingAfterEnded ==
    [][(\E i \in 1..Len(history) : history[i] = Ended)
          => (history' = history)]_vars

\* C28: a block-stop line, a Result line and flush() append, for the text
\* the accumulators hold at that point, one ThinkingMessage when there is
\* thinking and then one AssistantMessage when there is content, and nothing
\* for an empty accumulator (a Result adds Ended after them, flush() first
\* decodes what its buffer holds); both accumulators are empty afterwards.
C28_FlushPointsEmitThinkingThenContent ==
    /\ (nlast.op = "line" /\ IsEvent(nlast.line, "content_block_stop"))
          => /\ nlast.out = HeldEntries(nlast.before)
             /\ proc.current_thinking = "" /\ proc.current_content = ""
    /\ (nlast.op = "line" /\ IsResult(nlast.line))
          => /\ nlast.out = HeldEntries(nlast.before) \o <<Ended>>
             /\ proc.current_thinking = "" /\ proc.current_content = ""
    /\ nlast.op = "flush"
          => LET b == nlast.before
                 one == IF b.buffer = <<>> THEN Step(b, <<>>)
                        ELSE ProcessLine([b EXCEPT !.buffer = <<>>], b.buffer)
             IN /\ nlast.out = one.out \o HeldEntries(one.proc)
                /\ proc.current_thinking = "" /\ proc.current_content = ""

C28_Witness ==
    /\ nlast.op = "line" /\ IsEvent(nlast.line, "content_block_stop")
    /\ nlast.before.current_thinking = "Hm"
    /\ nlast.before.current_content = "Hel"
    /\ nlast.out = <<Entry("ThinkingMessage", "Hm"),
                     Entry("AssistantMessage", "Hel")>>
    /\ proc.current_thinking = "" /\ proc.current_content = ""

\* Whether a text or thinking delta is among lines
EverStreamed(lines) ==
    \E i \in 1..Len(lines) :
        IsEvent(lines[i], "text_delta") \/ IsEvent(lines[i], "thinking_delta")

\* C29: has_streamed_content changes only when a text delta or a thinking
\* delta is handled, so an Assistant record that no text or thinking delta
\* precedes appends one entry for each of its text and thinking blocks.
C29_OnlyTextAndThinkingDeltasSetFlag ==
    /\ (nlast.op = "line"
          /\ proc.has_streamed_content # nlast.before.has_streamed_content)
          => \/ IsEvent(nlast.line, "text_delta")
             \/ IsEvent(nlast.line, "thinking_delta")
    /\ (nlast.op = "line" /\ IsAssistant(nlast.line)
          /\ ~EverStreamed(Front(nlines)))
          => TextEntries(nlast.out) = BlockEntries(MsgOf(nlast.line).content)

IsErrorRecord(l) == Decodes(l) /\ MsgOf(l).type = "error"

\* C30: an Error record appends exactly one ErrorMessage entry, holding the
\* record's message when it has one, else its error text when it has one,
\* else "Unknown error"; it appends nothing else (no Ended) and leaves the
\* accumulators and the streamed flag as they were.
C30_ErrorRecordEmitsOneErrorMessage ==
    (nlast.op = "line" /\ IsErrorRecord(nlast.line))
        => LET m == MsgOf(nlast.line)
               text == IF m.message # NoText THEN m.message.v
                       ELSE IF m.error # NoText THEN m.error.v
                       ELSE "Unknown error"
           IN /\ nlast.out = <<Entry("ErrorMessage", text)>>
              /\ history = SubSeq(history, 1, Len(history) - 1) \o nlast.out
              /\ SamePending(proc, nlast.before)

C30_Witness ==
    /\ nlast.op = "line"
    /\ nlast.line = <<Json(ErrorMsg(NoText, Some("E42")))>>
    /\ nlast.before.current_content = "Hel"
    /\ proc.current_content = "Hel"
    /\ history = <<Entry("ErrorMessage", "boom"),
                    Entry("ErrorMessage", "E42")>>

\* C24: merge and with_overrides are right-biased. After either call every
\* key of the given map has the given value, every other key has the value
\* it had before, no other key appears, and a second merge of the same map
\* changes nothing.
C24_MergeIsRightBiased ==
    envLast.op \in {"merge", "with_overrides"} =>
        /\ \A k \in DOMAIN envLast.other :
               Get(envVars, k) = Some(envLast.other[k])
        /\ \A k \in EnvKeys \ DOMAIN envLast.other :
               Get(envVars, k) = Get(envLast.before, k)
        /\ DOMAIN envVars = DOMAIN envLast.before \cup DOMAIN envLast.other
        /\ envLast.again => envVars = envLast.before

\* the merge of test_execution_env_merge (KEY1 kept, KEY2 overridden, KEY3
\* added), done a second time
C24_Witness ==
    /\ envLast.op = "merge"
    /\ envLast.again
    /\ envLast.other = [k \in {"KEY2", "KEY3"} |->
                           IF k = "KEY2" THEN "b" ELSE "a"]
    /\ envVars = [k \in EnvKeys |-> IF k = "KEY2" THEN "b" ELSE "a"]

\* C21: once handle_feedback_socket has sent Complete, for an Ended taken
\* from the replayed history or from the live channel, it sends nothing
\* further: its loop is over.
C21_NothingSentAfterComplete ==
    [][(\E i \in 1..Len(sockSent) : sockSent[i] = Complete)
          => (sockSent' = sockSent)]_vars

\* C25: the runner awaits the exit of the process, and sets Completed or
\* Failed, only after the stdout loop saw the end of the stream (a read
\* error is not the end of the stream) and the normalizer was flushed: by
\* then every line the process wrote to stdout was handed to the normalizer.
C25_ExitAwaitedAfterAllOutputRead ==
    (spawnResult = "ok" /\ pc \in {"wait", "set_final", "done"}) =>
        /\ stdoutEnd = "eof"
        /\ proc.buffer = <<>>
        /\ outRead = outWritten

\* C26: stdout and stderr are driven concurrently: a process that fills the
\* stderr pipe before it closes stdout does not block the session, which
\* reaches Completed or Failed.
C26_SessionReachesTerminalState ==
    (spawnResult = "ok") ~> (state \in {"Completed", "Failed"})

\* the agent process of session s is running and the runner waits for it
ProcessPending(s) == runner[s] \in {"read", "stderr", "wait"}

\* C22: cancel_feedback on an existing session completes, and leaves the
\* state Cancelled, without waiting for the process to exit or to write
\* anything: no fairness is assumed of the process, so this holds for a
\* process that never terminates.
C22_CancelCompletesWithoutTheProcess ==
    \A h \in Handlers :
        (handler[h].op = "cancel" /\ handler[h].pc = "session")
            ~> (handler[h].pc = "done" /\ handler[h].saw = "Cancelled")

\* a cancel that completed while the process was running, the runner
\* waiting for its output
C22_Witness ==
    \E h \in Handlers :
        /\ handler[h].op = "cancel"
        /\ handler[h].sess = "B"
        /\ handler[h].pc = "done"
        /\ sessionState["B"] = "Cancelled"
        /\ runner["B"] = "read"

\* No task holds the registry lock while it waits for a session lock, a
\* store lock or the process, and no runner holds its session lock where
\* it waits for spawn, a read or wait
LockDiscipline ==
    /\ \A h \in Handlers :
           Holds(sessionsLock, h) => handler[h].pc = "in_reg"
    /\ \A s \in SessionIds :
           /\ ~Holds(sessionsLock, RunnerOf(s))
           /\ (runner[s] = "spawn" \/ ProcessPending(s))
                  => ~Holds(sessionLock[s], RunnerOf(s))

\* C23: a slow session does not block the others: create, get status,
\* cancel and stream on session A complete whatever the runner of B waits
\* for, and the locks are held as LockDiscipline says.
C23_SessionsDoNotBlockEachOther ==
    /\ []LockDiscipline
    /\ \A h \in Handlers :
           (handler[h].sess = "A" /\ handler[h].pc # "done")
               ~> (handler[h].pc = "done")

\* requests on A were answered, one of them the create, while the runner
\* of B waits for its process
C23_Witness ==
    /\ ProcessPending("B")
    /\ \E h, g \in Handlers :
           /\ handler[h].op = "create"
           /\ handler[h].pc = "done"
           /\ handler[g].op \in {"get", "cancel", "stream"}
           /\ handler[g].sess = "A"
           /\ handler[g].pc = "done"
           /\ handler[g].saw # "none"

\* C37: whenever the state of a session is Completed or Failed, its history
\* holds an Ended or an Error message, also when the process exited without
\* writing a Result record.
C37_TerminalStateHasEndMarker ==
    state \in {"Completed", "Failed"} =>
        \E i \in 1..Len(history) : history[i].kind \in {"Ended", "Error"}

\* a is b with some elements left out
RECURSIVE IsSubsequence(_, _)
IsSubsequence(a, b) ==
    IF a = <<>> THEN TRUE
    ELSE IF b = <<>> THEN FALSE
    ELSE IF Head(a) = Head(b) THEN IsSubsequence(Tail(a), Tail(b))
    ELSE IsSubsequence(a, Tail(b))

\* C39: what a subscriber received is in the order of the history, also
\* when the pushes came from concurrent callers (as long as the history was
\* not cleared).
C39_ReceivedInHistoryOrder ==
    ~cleared => \A s \in Subscribers : IsSubsequence(got[s], history)

\* The texts of the ev deltas among lines, joined in line order
RECURSIVE AllDeltas(_, _)
AllDeltas(lines, ev) ==
    IF lines = <<>> THEN ""
    ELSE (IF IsEvent(Head(lines), ev) THEN MsgOf(Head(lines)).text ELSE "")
         \o AllDeltas(Tail(lines), ev)

\* The contents of the entries pushed from the accumulator src, joined in
\* push order
RECURSIVE EmittedFrom(_, _)
EmittedFrom(emit, src) ==
    IF emit = <<>> THEN ""
    ELSE (IF Head(emit).src = src THEN Head(emit).msg.content ELSE "")
         \o EmittedFrom(Tail(emit), src)

\* C40: after a Result record or flush() the AssistantMessage entries pushed
\* from the content accumulator, joined, are the text deltas received so
\* far, joined in arrival order: nothing lost, nothing twice. The same
\* holds for the thinking deltas and the ThinkingMessage entries.
C40_CoalescingKeepsStreamedText ==
    (nlast.op = "flush" \/ (nlast.op = "line" /\ IsResult(nlast.line))) =>
        /\ EmittedFrom(nemit, "content") = AllDeltas(nlines, "text_delta")
        /\ EmittedFrom(nemit, "thinking")
               = AllDeltas(nlines, "thinking_delta")

\* text deltas on both sides of a block stop, the last one in a line
\* without newline, then flush()
C40_Witness ==
    /\ nlast.op = "flush"
    /\ Len(nlines) = 4
    /\ IsEvent(nlines[1], "text_delta")
    /\ IsEvent(nlines[2], "thinking_delta")
    /\ IsEvent(nlines[3], "content_block_stop")
    /\ nlast.before.buffer = <<Json(TextDelta("lo"))>>
    /\ EmittedFrom(nemit, "content") = "Hello"

\* a step of cancel_feedback that changes something
CancelStep ==
    /\ state' = "Cancelled"
    /\ cancelled'
    /\ state # "Cancelled" \/ ~cancelled

\* C31: cancel_feedback changes the state field and nothing else: the
\* runner and its process go on as before, the store is neither pushed to
\* nor cleared, the session stays registered; a line the process writes
\* after the cancel is read, normalized, appended and broadcast as before.
C31_CancelChangesOnlyTheState ==
    /\ [][CancelStep =>
            UNCHANGED <<pc, spawnResult, waitResult, linesRead, proc,
                        storeVars, storeOnlyVars, sessions>>]_vars
    /\ [][(cancelled /\ linesRead' = linesRead + 1) =>
            \E line \in StdoutLines :
                LET r == ProcessChunk(proc, line \o <<NL>>)
                IN /\ proc' = r.proc
                   /\ history' = history \o r.out
                   /\ sendLog' = sendLog \o r.out]_vars
    /\ [](cancelled /\ state = "Cancelled" /\ pc = "stdout"
              /\ linesRead < MaxLines
            => \A line \in StdoutLines : ENABLED RunnerReadLine(line))

\* cancelled while the process was running, and a line was read
C31_Witness ==
    /\ cancelled
    /\ state = "Cancelled"
    /\ spawnResult = "ok"
    /\ pc = "stdout"
    /\ linesRead = 1
    /\ history = <<Entry("AssistantMessage", "Hi")>>
    /\ sendLog = history

\* The contents of the AssistantMessage entries of h, in the order of h
AssistantEntries(h) ==
    SelectSeq(h, LAMBDA m : m.kind = "Entry"
                               /\ m.entry_type = "AssistantMessage")

\* contents joined by newlines, the first to the last
RECURSIVE Joined(_)
Joined(es) ==
    IF es = <<>> THEN ""
    ELSE IF Len(es) = 1 THEN es[1].content
    ELSE Joined(Front(es)) \o "\n" \o es[Len(es)].content

\* the status reported for each state
ReportedStatus ==
    [Pending |-> "Pending", Running |-> "Processing",
     Completed |-> "Completed", Failed |-> "Failed", Cancelled |-> "Failed"]

\* a step in which get_feedback answered something new
GetStep == response' # response \/ observed' # observed

\* C33: get_feedback reports the status of the state it reads and the
\* contents of all AssistantMessage entries of the history, joined in history
\* order; the content is absent exactly when the history has no such entry;
\* state and history are left as they were.
C33_StatusAndContentOfAllEntries ==
    [][GetStep =>
          /\ response'.status = ReportedStatus[state]
          /\ response'.content =
                 IF AssistantEntries(history) = <<>> THEN NoText
                 ELSE Some(Joined(AssistantEntries(history)))
          /\ UNCHANGED <<state, history>>]_vars

\* C33 as it holds: the content is absent when the joined text is empty,
\* which is the case with no AssistantMessage entry and with a single entry
\* whose content is empty.
C33_StatusAndJoinedContent ==
    [][GetStep =>
          /\ response'.status = ReportedStatus[state]
          /\ response'.content =
                 IF Joined(AssistantEntries(history)) = "" THEN NoText
                 ELSE Some(Joined(AssistantEntries(history)))
          /\ UNCHANGED <<state, history>>]_vars

\* a cancelled session with two assistant entries was reported
C33_Witness ==
    /\ state = "Cancelled"
    /\ response = [status |-> "Failed", content |-> Some("Hi\nHi")]
    /\ Len(AssistantEntries(history)) = 2

\* where a handler, a runner, waits for a lock
HandlerWaits == {"reg", "session", "history"}
RunnerWaits == {"start", "prep", "push", "final", "fail", "push_error"}

\* C38: the registry lock, the session locks and the history mutexes never
\* deadlock: every handler and every runner that waits for one of them is
\* granted it and gets past its lock requests, with get status taking the
\* mutex under the session's read lock and the spawn-failure path pushing
\* under the session's write lock.
C38_EveryLockRequestIsGranted ==
    /\ \A h \in Handlers :
           (handler[h].pc \in HandlerWaits)
               ~> (handler[h].pc \notin HandlerWaits)
    /\ \A s \in SessionIds :
           (runner[s] \in RunnerWaits) ~> (runner[s] \notin RunnerWaits)

\* get status holds the read lock of B and waits for the mutex that the
\* runner's push holds, while the other handler waits for the write lock
C38_Witness ==
    \E h, g \in Handlers :
        /\ handler[h].op = "get"
        /\ handler[h].sess = "B"
        /\ handler[h].pc = "history"
        /\ historyLock["B"] = RunnerOf("B")
        /\ handler[g].op = "cancel"
        /\ handler[g].sess = "B"
        /\ handler[g].pc = "session"

\* log_msg_to_stream_message over a sequence of messages
StreamMessages(ms) == [i \in 1..Len(ms) |-> LogMsgToStreamMessage(ms[i])]

\* C32: the stream endpoint replays the history before it goes live. While
\* the replay loop runs nothing was received from the channel, and what was
\* sent followed by what is left of the snapshot is a prefix of the history
\* under the LogMsg-to-StreamMessage mapping; from the live loop on, what was
\* sent is that mapping of a prefix of the history, in history order,
\* followed by the same mapping of the messages received live.
C32_HistoryReplayedBeforeLive ==
    /\ sockPc \in {"idle", "history"} => sockSent = <<>>
    /\ sockPc = "replay" =>
           /\ got[SocketRx] = <<>>
           /\ \E k \in 0..Len(history) :
                  sockSent \o StreamMessages(sockReplay)
                      = StreamMessages(SubSeq(history, 1, k))
    /\ got[SocketRx] # <<>> => sockReplay = <<>>
    /\ sockPc = "live" =>
           \E k \in 0..Len(history) :
               sockSent = StreamMessages(SubSeq(history, 1, k))
                              \o StreamMessages(got[SocketRx])

\* a client that was sent two replayed messages and then a live one
C32_Witness ==
    /\ sockPc = "live"
    /\ Len(got[SocketRx]) >= 1
    /\ Len(sockSent) >= Len(got[SocketRx]) + 2
    /\ sockSent[1] # sockSent[2]

HasArg(arg) == \E i \in 1..Len(cmdArgs) : cmdArgs[i] = arg
HasFlag(flag) == \E i \in 1..Len(cmdArgs) : cmdArgs[i].flag = flag

\* the flag is on the command line exactly when the option is set, and then
\* with the option's value
FlagFollows(flag, option) ==
    IF option.none THEN ~HasFlag(flag)
    ELSE HasArg(ArgOf(flag, <<option.v>>))

\* C34: every agent invocation asks for stream-json output and the
\* permission-bypass mode, carries --resume exactly when a session reference
\* was supplied (spawn_follow_up, or a feedback request with a session_id),
\* and --model and --system-prompt exactly when the session's agent
\* configuration has them.
C34_InvocationFollowsConfiguration ==
    cmdCall.via # "none" =>
        /\ HasArg(Arg("--output-format=stream-json"))
        /\ HasArg(Arg("--permission-mode=bypassPermissions"))
        /\ FlagFollows("--resume=", cmdCall.session_id)
        /\ FlagFollows("--model=", cmdCall.config.model)
        /\ FlagFollows("--system-prompt=", cmdCall.config.system_prompt)

\* the same of the invocations the executor builds
ExecutorInvocationFollowsConfiguration ==
    cmdCall.via \in {"spawn", "spawn_follow_up"} =>
        C34_InvocationFollowsConfiguration

\* the messages a pusher has appended to the history and not yet sent
RECURSIVE Unsent(_)
Unsent(ps) ==
    IF ps = {} THEN <<>>
    ELSE LET p == CHOOSE q \in ps : TRUE
         IN (IF prod[p].pc = "send" THEN <<prod[p].msg>> ELSE <<>>)
            \o Unsent(ps \ {p})

\* the messages the handler's receiver has not taken from the channel yet
Unreceived == SubSeq(chan, rx[SocketRx].next + 1, Len(chan))

\* C35: a stream client that stays connected and does not lag loses no
\* message: from the snapshot of the history on, every message of the
\* history was sent to the client at least as often as it is in the history,
\* or is still on its way to it: in the rest of the snapshot, in the channel
\* ahead of the receiver, or in the hands of a pusher that has appended it
\* and not yet sent it. Once the pushers are through and the receiver has
\* caught up, every message of the history was sent.
C35_NoMessageLostAcrossTheSwitch ==
    sockPc \in {"replay", "live"} =>
        \A m \in StreamPushMsgs :
            Count(LogMsgToStreamMessage(m), StreamMessages(history))
                <= Count(LogMsgToStreamMessage(m),
                         sockSent
                         \o StreamMessages(sockReplay)
                         \o StreamMessages(Unreceived)
                         \o StreamMessages(Unsent(Producers)))

\* a client that was sent all of a history of which it took one message
\* from the snapshot and two, pushed during the replay and after it, from
\* the channel
C35_Witness ==
    /\ sockPc = "live"
    /\ Len(history) = 3
    /\ Len(sockSent) = 3
    /\ Len(got[SocketRx]) = 2
    /\ subAt[SocketRx] = 1
    /\ Unreceived = <<>>
    /\ \A p \in Producers : prod[p].pc = "idle"

\* C36: once Ended is in the history and a client is connected, the client
\* is eventually sent Complete, also when its receiver fell more than the
\* channel's capacity behind.
C36_CompleteIsEventuallySent ==
    ((\E i \in 1..Len(history) : history[i] = Ended) /\ sockPc # "idle")
        ~> (\E j \in 1..Len(sockSent) : sockSent[j] = Complete)

====
